---- MODULE Spec2Model ----
(***************************************************************************)
(* Expense tracker: the aggregation engine (calculateSummary), the filter  *)
(* engine (filterExpenses, useFilters), the vendor analytics and the       *)
(* export functions of src/utils/analytics.ts, the export dialog, the      *)
(* localStorage wrapper and the useExpenses hook.                          *)
(*                                                                         *)
(* Conventions of the model                                                *)
(*  - a JavaScript string is a sequence of one-character strings;          *)
(*    <<>> is the empty string ''.                                         *)
(*  - an optional value (undefined or a value) is a sequence of length 0   *)
(*    or 1.                                                                *)
(*  - a JavaScript number is an integer-valued double whose significand    *)
(*    is MantBits bits wide instead of 53; addition rounds to nearest,     *)
(*    ties to even, as IEEE-754 does.                                      *)
(*  - a 'YYYY-MM-DD' date string is the triple <<y, m, d>>; an instant is  *)
(*    a number of minutes since 2024-01-01T00:00Z.                         *)
(***************************************************************************)
EXTENDS Integers, Sequences, FiniteSets, TLC

VARIABLES expenses, now, tzOffset, filters, summary, filtered, pc,
          vendors, searchQuery, filteredVendors, artifact,
          exporter, dialog, store, form

vars == <<expenses, now, tzOffset, filters, summary, filtered, pc,
          vendors, searchQuery, filteredVendors, artifact,
          exporter, dialog, store, form>>

\* what the vendor page and the export functions hold
pageVars == <<vendors, searchQuery, filteredVendors, artifact>>

\* one call of performExport, the export dialog, localStorage and the
\* expense form of the home page
appVars == <<exporter, dialog, store, form>>

\* nothing of them is in use
IdleApp ==
  /\ exporter = <<>>
  /\ dialog = <<>>
  /\ store = <<>>
  /\ form = <<>>

(***************************************************************************)
(* Bounds                                                                  *)
(***************************************************************************)
MaxLen == 3
MaxFilterLen == 3
MantBits == 3

(***************************************************************************)
(* Strings                                                                 *)
(***************************************************************************)
UpperLetters ==
  <<"A","B","C","D","E","F","G","H","I","J","K","L","M",
    "N","O","P","Q","R","S","T","U","V","W","X","Y","Z">>

LowerLetters ==
  <<"a","b","c","d","e","f","g","h","i","j","k","l","m",
    "n","o","p","q","r","s","t","u","v","w","x","y","z">>

DigitChars == <<"0","1","2","3","4","5","6","7","8","9">>

WhiteSpaceChars == {" ", "\t", "\n"}

LowerChar(c) ==
  IF \E i \in 1..26 : UpperLetters[i] = c
    THEN LowerLetters[CHOOSE i \in 1..26 : UpperLetters[i] = c]
    ELSE c

UpperChar(c) ==
  IF \E i \in 1..26 : LowerLetters[i] = c
    THEN UpperLetters[CHOOSE i \in 1..26 : LowerLetters[i] = c]
    ELSE c

\* String.prototype.toLowerCase
toLowerCase(s) == [i \in 1..Len(s) |-> LowerChar(s[i])]

\* String.prototype.toUpperCase
toUpperCase(s) == [i \in 1..Len(s) |-> UpperChar(s[i])]

\* String.prototype.includes
includes(s, q) ==
  \E i \in 0..(Len(s) - Len(q)) : SubSeq(s, i + 1, i + Len(q)) = q

\* String.prototype.trim
RECURSIVE TrimLeft(_)
TrimLeft(s) ==
  IF s # <<>> /\ s[1] \in WhiteSpaceChars THEN TrimLeft(Tail(s)) ELSE s

RECURSIVE TrimRight(_)
TrimRight(s) ==
  IF s # <<>> /\ s[Len(s)] \in WhiteSpaceChars
    THEN TrimRight(SubSeq(s, 1, Len(s) - 1))
    ELSE s

trim(s) == TrimRight(TrimLeft(s))

\* Number.prototype.toString of a non-negative integer-valued number
RECURSIVE NumberToString(_)
NumberToString(n) ==
  IF n < 10 THEN <<DigitChars[n + 1]>>
  ELSE NumberToString(n \div 10) \o <<DigitChars[(n % 10) + 1]>>

\* the value of a string of decimal digits
RECURSIVE DigitsValue(_)
DigitsValue(s) ==
  IF s = <<>> THEN 0
  ELSE 10 * DigitsValue(SubSeq(s, 1, Len(s) - 1))
       + ((CHOOSE i \in 1..10 : DigitChars[i] = s[Len(s)]) - 1)

\* truthiness of an optional string: undefined and '' are falsy
Truthy(opt) == opt # <<>> /\ opt[1] # <<>>

(***************************************************************************)
(* Numbers                                                                 *)
(***************************************************************************)
\* the unit in the last place of n: 1 below 2^MantBits, doubling with every
\* further binary digit
RECURSIVE Ulp(_)
Ulp(n) == IF n < 2 ^ MantBits THEN 1 ELSE 2 * Ulp(n \div 2)

\* round to nearest representable value, ties to the even significand
RoundToDouble(n) ==
  LET u == Ulp(n)
      q == n \div u
      r == n % u
  IN  IF 2 * r < u THEN q * u
      ELSE IF 2 * r > u THEN (q + 1) * u
      ELSE IF q % 2 = 0 THEN q * u
      ELSE (q + 1) * u

\* the + of two numbers
FAdd(a, b) == RoundToDouble(a + b)

\* expenses.reduce((sum, exp) => sum + exp.amount, 0)
RECURSIVE SumAmounts(_)
SumAmounts(s) ==
  IF s = <<>> THEN 0
  ELSE FAdd(SumAmounts(SubSeq(s, 1, Len(s) - 1)), s[Len(s)].amount)

(***************************************************************************)
(* Dates                                                                   *)
(***************************************************************************)
MinutesPerDay == 1440

IsLeapYear(y) == (y % 4 = 0 /\ y % 100 # 0) \/ y % 400 = 0

DaysInMonth(y, m) ==
  IF m = 2 THEN (IF IsLeapYear(y) THEN 29 ELSE 28)
  ELSE IF m \in {4, 6, 9, 11} THEN 30
  ELSE 31

RECURSIVE DaysBeforeMonth(_, _)
DaysBeforeMonth(y, m) ==
  IF m = 1 THEN 0 ELSE DaysBeforeMonth(y, m - 1) + DaysInMonth(y, m - 1)

RECURSIVE DaysBeforeYear(_)
DaysBeforeYear(y) ==
  IF y <= 2024 THEN 0
  ELSE DaysBeforeYear(y - 1) + (IF IsLeapYear(y - 1) THEN 366 ELSE 365)

\* days from 2024-01-01 to the calendar date ymd
DayNumber(ymd) ==
  DaysBeforeYear(ymd[1]) + DaysBeforeMonth(ymd[1], ymd[2]) + (ymd[3] - 1)

\* new Date('YYYY-MM-DD'): a date-only string is midnight UTC of that day
NewDate(ymd) == DayNumber(ymd) * MinutesPerDay

\* the calendar date n days after the first day of month m of year y
RECURSIVE DateFrom(_, _, _)
DateFrom(y, m, n) ==
  IF n < DaysInMonth(y, m) THEN <<y, m, n + 1>>
  ELSE IF m = 12 THEN DateFrom(y + 1, 1, n - DaysInMonth(y, m))
  ELSE DateFrom(y, m + 1, n - DaysInMonth(y, m))

\* the local calendar date of instant t in a zone tz minutes ahead of UTC
\* (getFullYear, getMonth, getDate)
LocalDate(t, tz) == DateFrom(2024, 1, (t + tz) \div MinutesPerDay)

\* date-fns startOfMonth: local midnight of the first day of the local month
startOfMonth(t, tz) ==
  LET ld == LocalDate(t, tz)
  IN  DayNumber(<<ld[1], ld[2], 1>>) * MinutesPerDay - tz

\* date-fns endOfMonth: the last tick of the last day of the local month
endOfMonth(t, tz) ==
  LET ld == LocalDate(t, tz)
      last == <<ld[1], ld[2], DaysInMonth(ld[1], ld[2])>>
  IN  (DayNumber(last) + 1) * MinutesPerDay - 1 - tz

(***************************************************************************)
(* Category names and the plain object used as a map                       *)
(***************************************************************************)
Food == <<"F","o","o","d">>
Bills == <<"B","i","l","l","s">>
All == <<"A","l","l">>
ProtoKey == <<"_","_","p","r","o","t","o","_","_">>
ConstructorKey == <<"c","o","n","s","t","r","u","c","t","o","r">>
KeyTen == <<"1","0">>
KeyTwo == <<"2">>

\* the property names every object literal {} inherits from Object.prototype
ObjectPrototypeKeys ==
  {<<"c","o","n","s","t","r","u","c","t","o","r">>,
   <<"_","_","d","e","f","i","n","e","G","e","t","t","e","r","_","_">>,
   <<"_","_","d","e","f","i","n","e","S","e","t","t","e","r","_","_">>,
   <<"h","a","s","O","w","n","P","r","o","p","e","r","t","y">>,
   <<"_","_","l","o","o","k","u","p","G","e","t","t","e","r","_","_">>,
   <<"_","_","l","o","o","k","u","p","S","e","t","t","e","r","_","_">>,
   <<"i","s","P","r","o","t","o","t","y","p","e","O","f">>,
   <<"p","r","o","p","e","r","t","y","I","s","E","n","u","m","e","r","a","b","l","e">>,
   <<"t","o","S","t","r","i","n","g">>,
   <<"v","a","l","u","e","O","f">>,
   <<"_","_","p","r","o","t","o","_","_">>,
   <<"t","o","L","o","c","a","l","e","S","t","r","i","n","g">>}

\* a property value that is not a number: the string that + builds when its
\* left operand is an inherited function or object, or such a string already
NotNumber == -1

\* an array index: a canonical decimal string (the model reads up to 9 digits)
IsArrayIndex(k) ==
  /\ k # <<>>
  /\ Len(k) <= 9
  /\ \A i \in 1..Len(k) : \E d \in 1..10 : DigitChars[d] = k[i]
  /\ (Len(k) = 1 \/ k[1] # "0")

\* an object is the sequence of its own properties in creation order
HasOwn(obj, k) == \E i \in 1..Len(obj) : obj[i].key = k

OwnValue(obj, k) == obj[CHOOSE i \in 1..Len(obj) : obj[i].key = k].value

\* categoryTotals[k] || 0, as the left operand of +
GetOrZero(obj, k) ==
  IF HasOwn(obj, k) THEN OwnValue(obj, k)
  ELSE IF k \in ObjectPrototypeKeys THEN NotNumber
  ELSE 0

\* obj[k] = v; the __proto__ setter ignores a value that is not an object
SetProperty(obj, k, v) ==
  IF k = ProtoKey THEN obj
  ELSE IF HasOwn(obj, k)
    THEN [i \in 1..Len(obj) |->
            IF obj[i].key = k THEN [key |-> k, value |-> v] ELSE obj[i]]
  ELSE Append(obj, [key |-> k, value |-> v])

\* categoryTotals[c] = (categoryTotals[c] || 0) + amount
AddToTotal(obj, k, amount) ==
  LET cur == GetOrZero(obj, k)
  IN  SetProperty(obj, k, IF cur = NotNumber THEN NotNumber ELSE FAdd(cur, amount))

RECURSIVE AscendingIndexKeys(_, _)
AscendingIndexKeys(obj, S) ==
  IF S = {} THEN <<>>
  ELSE LET i == CHOOSE i \in S :
                  \A j \in S : DigitsValue(obj[i].key) <= DigitsValue(obj[j].key)
       IN  <<obj[i]>> \o AscendingIndexKeys(obj, S \ {i})

\* Object.entries: array-index keys in ascending numeric order, then the
\* other keys in creation order
ObjectEntries(obj) ==
  AscendingIndexKeys(obj, {i \in 1..Len(obj) : IsArrayIndex(obj[i].key)})
    \o SelectSeq(obj, LAMBDA e : ~IsArrayIndex(e.key))

(***************************************************************************)
(* Array.prototype.sort((a, b) => b.amount - a.amount)                     *)
(***************************************************************************)
\* the comparator's result; NaN counts as 0.  The sign of a rounded
\* difference of two numbers is the sign of their exact difference.
CompareByAmount(a, b) ==
  IF a.amount = NotNumber \/ b.amount = NotNumber THEN 0
  ELSE b.amount - a.amount

\* a consistent comparator orders the elements as a strict weak order
ConsistentByAmount(s) ==
  \A i, j, k \in 1..Len(s) :
    /\ (CompareByAmount(s[i], s[j]) = 0 /\ CompareByAmount(s[j], s[k]) = 0)
          => CompareByAmount(s[i], s[k]) = 0
    /\ (CompareByAmount(s[i], s[j]) < 0 /\ CompareByAmount(s[j], s[k]) < 0)
          => CompareByAmount(s[i], s[k]) < 0
    /\ (CompareByAmount(s[i], s[j]) = 0 /\ CompareByAmount(s[j], s[k]) < 0)
          => CompareByAmount(s[i], s[k]) < 0
    /\ (CompareByAmount(s[i], s[j]) < 0 /\ CompareByAmount(s[j], s[k]) = 0)
          => CompareByAmount(s[i], s[k]) < 0

\* x goes before the first element that must follow it
RECURSIVE InsertByAmount(_, _)
InsertByAmount(sorted, x) ==
  IF sorted = <<>> THEN <<x>>
  ELSE IF CompareByAmount(Head(sorted), x) > 0 THEN <<x>> \o sorted
  ELSE <<Head(sorted)>> \o InsertByAmount(Tail(sorted), x)

RECURSIVE StableSortByAmount(_)
StableSortByAmount(s) ==
  IF s = <<>> THEN <<>>
  ELSE InsertByAmount(StableSortByAmount(SubSeq(s, 1, Len(s) - 1)), s[Len(s)])

PermutationsOf(s) ==
  {[i \in 1..Len(s) |-> s[f[i]]] :
     f \in {g \in [1..Len(s) -> 1..Len(s)] :
              \A i, j \in 1..Len(s) : g[i] = g[j] => i = j}}

\* the orders sort may leave: the stable ascending order of a consistent
\* comparator, an implementation-defined order otherwise
SortByAmountOutcomes(s) ==
  IF ConsistentByAmount(s) THEN {StableSortByAmount(s)} ELSE PermutationsOf(s)

(***************************************************************************)
(* calculateSummary                                                        *)
(***************************************************************************)
TotalSpending(exps) == SumAmounts(exps)

\* expDate >= monthStart && expDate <= monthEnd
InMonthWindow(exp, t, tz) ==
  /\ NewDate(exp.date) >= startOfMonth(t, tz)
  /\ NewDate(exp.date) <= endOfMonth(t, tz)

MonthlySpending(exps, t, tz) ==
  SumAmounts(SelectSeq(exps, LAMBDA e : InMonthWindow(e, t, tz)))

RECURSIVE CategoryTotals(_)
CategoryTotals(exps) ==
  IF exps = <<>> THEN <<>>
  ELSE AddToTotal(CategoryTotals(SubSeq(exps, 1, Len(exps) - 1)),
                  exps[Len(exps)].category, exps[Len(exps)].amount)

\* Object.entries(categoryTotals).map(...), before the sort
BreakdownEntries(exps) ==
  LET es == ObjectEntries(CategoryTotals(exps))
  IN  [i \in 1..Len(es) |-> [category |-> es[i].key, amount |-> es[i].value]]

\* a variant that answers an empty breakdown with a default entry
TopCategoryOrOther(breakdown) ==
  IF Len(breakdown) > 0
    THEN <<[category |-> breakdown[1].category, amount |-> breakdown[1].amount]>>
    ELSE <<[category |-> <<"O","t","h","e","r">>, amount |-> 0]>>

TopCategory(breakdown) ==
  IF Len(breakdown) > 0
    THEN <<[category |-> breakdown[1].category, amount |-> breakdown[1].amount]>>
    ELSE <<>>

\* the summary, given the order the sort left the breakdown in
SummaryOf(exps, t, tz, breakdown) ==
  [totalSpending     |-> TotalSpending(exps),
   monthlySpending   |-> MonthlySpending(exps, t, tz),
   topCategory       |-> TopCategory(breakdown),
   categoryBreakdown |-> breakdown]

NoSummary ==
  [totalSpending |-> 0, monthlySpending |-> 0,
   topCategory |-> <<>>, categoryBreakdown |-> <<>>]

DefaultFilters ==
  [startDate |-> <<>>, endDate |-> <<>>,
   category |-> <<All>>, searchQuery |-> <<<<>>>>]

(***************************************************************************)
(* Inputs of the summary                                                   *)
(***************************************************************************)
Jan31 == <<2024, 1, 31>>
Feb01 == <<2024, 2, 1>>
Feb29 == <<2024, 2, 29>>
Mar01 == <<2024, 3, 1>>

Cafe == <<"C","a","f","e">>

Big == 2 ^ MantBits

Record(d, a, c, desc) ==
  [id |-> 0, date |-> d, amount |-> a, category |-> c, description |-> desc]

SummaryPool ==
  {Record(Feb01, 1, Food, Cafe),
   Record(Feb29, Big, Bills, Cafe),
   Record(Mar01, 2, Food, Cafe),
   Record(Jan31, 2, Bills, Cafe),
   Record(Feb01, 2, KeyTen, Cafe),
   Record(Feb01, 2, KeyTwo, Cafe),
   Record(Feb01, 1, ProtoKey, Cafe),
   Record(Feb01, 2, ConstructorKey, Cafe)}

\* ids are the positions in the list
WithIds(s) == [i \in 1..Len(s) |-> [s[i] EXCEPT !.id = i]]

ListsOver(pool, n) == {WithIds(s) : s \in UNION {[1..k -> pool] : k \in 0..n}}

\* 2024-02-15T12:00Z and 2024-02-01T02:00Z
Instants == {(31 + 14) * MinutesPerDay + 720, 31 * MinutesPerDay + 120}

\* UTC-5, UTC, UTC+9
ZoneOffsets == {-300, 0, 540}

InitSummary ==
  /\ expenses \in ListsOver(SummaryPool, MaxLen)
  /\ now \in Instants
  /\ tzOffset \in ZoneOffsets
  /\ filters = DefaultFilters
  /\ summary = NoSummary
  /\ filtered = <<>>
  /\ pc = "input"
  /\ vendors = <<>>
  /\ searchQuery = <<>>
  /\ filteredVendors = <<>>
  /\ artifact = <<>>
  /\ IdleApp

CalculateSummary ==
  /\ pc = "input"
  /\ \E breakdown \in SortByAmountOutcomes(BreakdownEntries(expenses)) :
       summary' = SummaryOf(expenses, now, tzOffset, breakdown)
  /\ pc' = "summary"
  /\ UNCHANGED <<appVars, expenses, now, tzOffset, filters, filtered, pageVars>>

NextSummary == CalculateSummary

SpecSummary == InitSummary /\ [][NextSummary]_vars

(***************************************************************************)
(* Properties of calculateSummary                                          *)
(***************************************************************************)
Summarised == pc = "summary"

\* the breakdown amounts added up as numbers, in list order
RECURSIVE SumBreakdown(_)
SumBreakdown(bd) ==
  IF bd = <<>> THEN 0
  ELSE LET rest == SumBreakdown(SubSeq(bd, 1, Len(bd) - 1))
       IN  IF rest = NotNumber \/ bd[Len(bd)].amount = NotNumber
             THEN NotNumber
             ELSE FAdd(rest, bd[Len(bd)].amount)

\* x > y between property values; false when either is not a number
Larger(x, y) == x # NotNumber /\ y # NotNumber /\ x > y

\* C1: the amounts of the categoryBreakdown entries add up to exactly
\* totalSpending, for every list of expenses.
C1_BreakdownSumsToTotal ==
  Summarised => SumBreakdown(summary.categoryBreakdown) = summary.totalSpending

\* C2: the summary of the empty list is totalSpending 0, monthlySpending 0,
\* topCategory null and an empty categoryBreakdown, and computing it does
\* not fail.
C2_EmptySummary ==
  /\ (pc = "input" /\ expenses = <<>>) => ENABLED CalculateSummary
  /\ (Summarised /\ expenses = <<>>) =>
        /\ summary.totalSpending = 0
        /\ summary.monthlySpending = 0
        /\ summary.topCategory = <<>>
        /\ summary.categoryBreakdown = <<>>

C2_Witness == Summarised /\ expenses = <<>>

\* the record's date lies in the calendar month the caller's clock shows
InCurrentMonth(exp, t, tz) ==
  LET ld == LocalDate(t, tz)
  IN  exp.date[1] = ld[1] /\ exp.date[2] = ld[2]

\* C3: monthlySpending is the sum of the amounts of exactly the records
\* dated in the current calendar month at call time, first and last day
\* included, every other month excluded.
C3_MonthlyIsCurrentMonth ==
  Summarised =>
    summary.monthlySpending =
      SumAmounts(SelectSeq(expenses, LAMBDA e : InCurrentMonth(e, now, tzOffset)))

\* C4: categoryBreakdown is ordered by non-increasing amount: no entry has a
\* larger amount than any entry before it.
C4_BreakdownDescending ==
  Summarised =>
    \A i, j \in 1..Len(summary.categoryBreakdown) :
      i < j => ~Larger(summary.categoryBreakdown[j].amount,
                       summary.categoryBreakdown[i].amount)

\* C5: for a non-empty list topCategory is the first breakdown entry, whose
\* amount is at least that of every other category; topCategory is null
\* only when the list is empty.
C5_TopCategoryIsFirst ==
  Summarised =>
    /\ (summary.topCategory = <<>> => expenses = <<>>)
    /\ (expenses # <<>> /\ summary.topCategory # <<>>) =>
          /\ summary.categoryBreakdown # <<>>
          /\ summary.topCategory[1].category = summary.categoryBreakdown[1].category
          /\ summary.topCategory[1].amount = summary.categoryBreakdown[1].amount
          /\ \A i \in 1..Len(summary.categoryBreakdown) :
               ~Larger(summary.categoryBreakdown[i].amount,
                       summary.topCategory[1].amount)

\* the position of the first record of category c in the input list
FirstOccurrence(exps, c) ==
  CHOOSE i \in 1..Len(exps) :
    /\ exps[i].category = c
    /\ \A j \in 1..(i - 1) : exps[j].category # c

\* C6: two categories of equal total amount stand in categoryBreakdown in
\* the order in which each first occurs in the input, whatever the category
\* strings are.
C6_TiesInFirstOccurrenceOrder ==
  Summarised =>
    \A i, j \in 1..Len(summary.categoryBreakdown) :
      (i < j /\ summary.categoryBreakdown[i].amount
                  = summary.categoryBreakdown[j].amount)
        => FirstOccurrence(expenses, summary.categoryBreakdown[i].category)
             < FirstOccurrence(expenses, summary.categoryBreakdown[j].category)

(***************************************************************************)
(* filterExpenses                                                          *)
(***************************************************************************)
\* a variant whose start bound is exclusive
PassesDateExclusiveStart(exp, f) ==
  /\ ~(Truthy(f.startDate) /\ NewDate(exp.date) <= NewDate(f.startDate[1]))
  /\ ~(Truthy(f.endDate) /\ NewDate(exp.date) > NewDate(f.endDate[1]))

\* if (expDate < startDate) return false; if (expDate > endDate) return false
PassesDate(exp, f) ==
  /\ ~(Truthy(f.startDate) /\ NewDate(exp.date) < NewDate(f.startDate[1]))
  /\ ~(Truthy(f.endDate) /\ NewDate(exp.date) > NewDate(f.endDate[1]))

\* if (category && category !== 'All' && expense.category !== category)
\*   return false
PassesCategory(exp, f) ==
  ~(Truthy(f.category) /\ f.category[1] # All /\ exp.category # f.category[1])

\* a variant that compares with the query as typed
PassesSearchAsTyped(exp, f) ==
  IF Truthy(f.searchQuery)
    THEN LET query == f.searchQuery[1]
         IN  \/ includes(toLowerCase(exp.description), query)
             \/ includes(toLowerCase(exp.category), query)
             \/ includes(NumberToString(exp.amount), query)
    ELSE TRUE

\* the search block: the query is lower-cased, and so are the description
\* and the category, but not the amount's string
PassesSearch(exp, f) ==
  IF Truthy(f.searchQuery)
    THEN LET query == toLowerCase(f.searchQuery[1])
         IN  \/ includes(toLowerCase(exp.description), query)
             \/ includes(toLowerCase(exp.category), query)
             \/ includes(NumberToString(exp.amount), query)
    ELSE TRUE

\* a variant in which a matching category ends the test
PassesCategoryOrSearch(exp, f) ==
  /\ PassesDate(exp, f)
  /\ PassesCategory(exp, f)
  /\ ((Truthy(f.category) /\ exp.category = f.category[1]) \/ PassesSearch(exp, f))

\* the callback of expenses.filter: false at the first failed test
Passes(exp, f) ==
  /\ PassesDate(exp, f)
  /\ PassesCategory(exp, f)
  /\ PassesSearch(exp, f)

\* a variant that loses the first record it keeps
filterExpensesSkippingFirst(exps, f) ==
  LET kept == SelectSeq(exps, LAMBDA e : Passes(e, f))
  IN  IF kept = <<>> THEN <<>> ELSE Tail(kept)

filterExpenses(exps, f) == SelectSeq(exps, LAMBDA e : Passes(e, f))

(***************************************************************************)
(* Inputs of the filter                                                    *)
(***************************************************************************)
FilterPool ==
  {Record(Jan31, 2, Food, Cafe),
   Record(Feb01, 12, Bills, <<"B","u","s"," ","2">>),
   Record(Feb29, 1, Food, <<"T","A","X","I">>),
   Record(Mar01, 1, Bills, <<"c","a","b">>)}

\* undefined, '' and a day
StartDates == {<<>>, <<<<>>>>, <<Feb01>>}

EndDates == {<<>>, <<Feb01>>, <<Feb29>>}

\* undefined, '', 'All' and two categories
CategoryChoices == {<<>>, <<<<>>>>, <<All>>, <<Food>>, <<Bills>>}

\* undefined, '', ' ', '  ', 'ca', 'CA', 'food', '2'
SearchQueries ==
  {<<>>, <<<<>>>>, <<<<" ">>>>, <<<<" ", " ">>>>,
   <<<<"c","a">>>>, <<<<"C","A">>>>, <<<<"f","o","o","d">>>>, <<<<"2">>>>}

FilterChoices ==
  [startDate : StartDates, endDate : EndDates,
   category : CategoryChoices, searchQuery : SearchQueries]

InitFilter ==
  /\ expenses \in ListsOver(FilterPool, MaxFilterLen)
  /\ now \in {0}
  /\ tzOffset \in {0}
  /\ filters \in FilterChoices
  /\ summary = NoSummary
  /\ filtered = <<>>
  /\ pc = "input"
  /\ vendors = <<>>
  /\ searchQuery = <<>>
  /\ filteredVendors = <<>>
  /\ artifact = <<>>
  /\ IdleApp

FilterExpenses ==
  /\ pc = "input"
  /\ filtered' = filterExpenses(expenses, filters)
  /\ pc' = "filtered"
  /\ UNCHANGED <<appVars, expenses, now, tzOffset, filters, summary, pageVars>>

NextFilter == FilterExpenses

SpecFilter == InitFilter /\ [][NextFilter]_vars

(***************************************************************************)
(* Properties of filterExpenses                                            *)
(***************************************************************************)
Filtered == pc = "filtered"

NoFilters ==
  [startDate |-> <<>>, endDate |-> <<>>, category |-> <<>>, searchQuery |-> <<>>]

DateOnly(f) == [NoFilters EXCEPT !.startDate = f.startDate, !.endDate = f.endDate]

CategoryOnly(f) == [NoFilters EXCEPT !.category = f.category]

SearchOnly(f) == [NoFilters EXCEPT !.searchQuery = f.searchQuery]

\* the record survives the filter under criteria f
Kept(exp, f) == filterExpenses(<<exp>>, f) = <<exp>>

\* the category test as the claim words it
CategoryTest(exp, f) ==
  \/ ~Truthy(f.category)
  \/ f.category[1] = All
  \/ exp.category = f.category[1]

\* C7: the criteria are applied conjunctively: the result is the records of
\* the list, in order, that satisfy the date test, the category test (exact
\* match unless absent or 'All') and the search test together, and it equals
\* filtering by one criterion after another in any order.
C7_CriteriaConjunctive ==
  Filtered =>
    LET d == DateOnly(filters)
        c == CategoryOnly(filters)
        q == SearchOnly(filters)
    IN  /\ filtered = SelectSeq(expenses,
                        LAMBDA e : Kept(e, d) /\ Kept(e, c) /\ Kept(e, q))
        /\ \A i \in 1..Len(expenses) :
             Kept(expenses[i], c) <=> CategoryTest(expenses[i], filters)
        /\ filtered = filterExpenses(filterExpenses(filterExpenses(expenses, d), c), q)
        /\ filtered = filterExpenses(filterExpenses(filterExpenses(expenses, d), q), c)
        /\ filtered = filterExpenses(filterExpenses(filterExpenses(expenses, c), d), q)
        /\ filtered = filterExpenses(filterExpenses(filterExpenses(expenses, c), q), d)
        /\ filtered = filterExpenses(filterExpenses(filterExpenses(expenses, q), d), c)
        /\ filtered = filterExpenses(filterExpenses(filterExpenses(expenses, q), c), d)

\* all three kinds of criteria are in force, one record is kept and one is
\* dropped
C7_Witness ==
  /\ Filtered
  /\ Truthy(filters.startDate)
  /\ Truthy(filters.category) /\ filters.category[1] # All
  /\ Truthy(filters.searchQuery)
  /\ Len(filtered) = 1
  /\ Len(expenses) = 2

\* a query of zero or more white-space characters
IsBlank(q) == trim(q) = <<>>

\* C8: a search query that is empty or consists of white space only matches
\* everything: filterExpenses(L, {searchQuery}) returns all records of L.
C8_BlankQueryMatchesAll ==
  (/\ Filtered
   /\ filters.startDate = <<>> /\ filters.endDate = <<>> /\ filters.category = <<>>
   /\ filters.searchQuery # <<>> /\ IsBlank(filters.searchQuery[1]))
    => filtered = expenses

\* q occurs in s when letter case is ignored
ContainsIgnoringCase(s, q) ==
  \E i \in 0..(Len(s) - Len(q)) :
    \A j \in 1..Len(q) : LowerChar(s[i + j]) = LowerChar(q[j])

MatchesQuery(exp, q) ==
  \/ ContainsIgnoringCase(exp.description, q)
  \/ ContainsIgnoringCase(exp.category, q)
  \/ ContainsIgnoringCase(NumberToString(exp.amount), q)

NonBlankQuery == filters.searchQuery # <<>> /\ ~IsBlank(filters.searchQuery[1])

\* C9: with a non-blank query q a record is kept iff q occurs, ignoring
\* letter case, in its description, its category or the decimal string of
\* its amount; the upper- and lower-case spellings of q give the same result.
C9_SearchIgnoresCase ==
  (Filtered /\ NonBlankQuery) =>
    LET q == filters.searchQuery[1]
        others == [filters EXCEPT !.searchQuery = <<>>]
    IN  /\ filtered = SelectSeq(filterExpenses(expenses, others),
                                LAMBDA e : MatchesQuery(e, q))
        /\ filtered = filterExpenses(expenses,
                        [filters EXCEPT !.searchQuery = <<toUpperCase(q)>>])
        /\ filtered = filterExpenses(expenses,
                        [filters EXCEPT !.searchQuery = <<toLowerCase(q)>>])

\* an upper-case query has kept one record and dropped another
C9_Witness ==
  /\ Filtered /\ NonBlankQuery
  /\ filters.searchQuery[1] = toUpperCase(filters.searchQuery[1])
  /\ filters.searchQuery[1] # toLowerCase(filters.searchQuery[1])
  /\ Len(filtered) = 1
  /\ Len(expenses) = 2

\* a before b as calendar dates
DateBefore(a, b) ==
  \/ a[1] < b[1]
  \/ a[1] = b[1] /\ a[2] < b[2]
  \/ a[1] = b[1] /\ a[2] = b[2] /\ a[3] < b[3]

InDateRange(exp, f) ==
  /\ ~(Truthy(f.startDate) /\ DateBefore(exp.date, f.startDate[1]))
  /\ ~(Truthy(f.endDate) /\ DateBefore(f.endDate[1], exp.date))

\* C10: the date bounds are inclusive: records dated on startDate and on
\* endDate are kept, and the date criteria drop exactly the records dated
\* strictly before startDate or strictly after endDate, when given.
C10_DateBoundsInclusive ==
  Filtered =>
    filtered = SelectSeq(
                 filterExpenses(expenses,
                   [filters EXCEPT !.startDate = <<>>, !.endDate = <<>>]),
                 LAMBDA e : InDateRange(e, filters))

\* of three records the one dated on startDate and the one dated on endDate
\* are kept and the one dated after endDate is dropped
C10_Witness ==
  /\ Filtered
  /\ Truthy(filters.startDate) /\ Truthy(filters.endDate)
  /\ filters.startDate[1] # filters.endDate[1]
  /\ Len(expenses) = 3
  /\ Len(filtered) = 2
  /\ filtered[1].date = filters.startDate[1]
  /\ filtered[2].date = filters.endDate[1]

(***************************************************************************)
(* useFilters: the filter state of the page and the list derived from it   *)
(***************************************************************************)
\* the values the controls hand to updateFilter: '' of a cleared control, a
\* day, a category, a query
UpdateValues(key) ==
  CASE key = "startDate"   -> {<<>>, Feb01}
    [] key = "endDate"     -> {<<>>, Feb29}
    [] key = "category"    -> {All, Food}
    [] key = "searchQuery" -> {<<>>, <<" ">>, <<"c","a">>}

FilterKeys == {"startDate", "endDate", "category", "searchQuery"}

\* a variant of the reset that spreads the previous filters
ResetKeepingDates(prev) ==
  [prev EXCEPT !.category = <<All>>, !.searchQuery = <<<<>>>>]

\* the object resetFilters passes to setFilters
ResetValue(prev) == DefaultFilters

InitHook ==
  /\ expenses \in ListsOver(FilterPool, MaxFilterLen)
  /\ now \in {0}
  /\ tzOffset \in {0}
  /\ filters = DefaultFilters
  /\ summary = NoSummary
  /\ filtered = filterExpenses(expenses, DefaultFilters)
  /\ pc = "mounted"
  /\ vendors = <<>>
  /\ searchQuery = <<>>
  /\ filteredVendors = <<>>
  /\ artifact = <<>>
  /\ IdleApp

\* updateFilter(key, value), and the useMemo that follows the state change
UpdateFilter ==
  /\ pc \in {"mounted", "updated", "reset"}
  /\ \E key \in FilterKeys : \E value \in UpdateValues(key) :
       /\ filters' = [filters EXCEPT ![key] = <<value>>]
       /\ filtered' = filterExpenses(expenses, filters')
  /\ pc' = "updated"
  /\ UNCHANGED <<appVars, expenses, now, tzOffset, summary, pageVars>>

\* resetFilters(), and the useMemo that follows the state change
ResetFilters ==
  /\ pc \in {"mounted", "updated", "reset"}
  /\ filters' = ResetValue(filters)
  /\ filtered' = filterExpenses(expenses, filters')
  /\ pc' = "reset"
  /\ UNCHANGED <<appVars, expenses, now, tzOffset, summary, pageVars>>

NextHook == UpdateFilter \/ ResetFilters

SpecHook == InitHook /\ [][NextHook]_vars

\* criteria none of which is in force: absent or '', or the category 'All'
IneffectiveFilters ==
  [startDate : {<<>>, <<<<>>>>}, endDate : {<<>>, <<<<>>>>},
   category : {<<>>, <<<<>>>>, <<All>>}, searchQuery : {<<>>, <<<<>>>>}]

\* C11: filtering with no effective criteria (each absent, '' or 'All') is
\* the identity, and so after resetFilters, whatever updateFilter calls came
\* before, filteredExpenses is the full expense list.
C11_NoCriteriaIsIdentity ==
  /\ \A f \in IneffectiveFilters : filterExpenses(expenses, f) = expenses
  /\ filters \in IneffectiveFilters => filtered = expenses
  /\ pc = "reset" => filtered = expenses

\* a reset has been made on a list of several records
C11_Witness ==
  /\ pc = "reset"
  /\ Len(expenses) >= 2
  /\ filters \in IneffectiveFilters
  /\ filtered = expenses

\* C12: filtering is idempotent: filtering the result again by the same
\* criteria gives the result, element for element and in the same order.
C12_FilterIdempotent ==
  Filtered => filterExpenses(filtered, filters) = filtered

\* criteria in force have kept some records and dropped others
C12_Witness ==
  /\ Filtered
  /\ Truthy(filters.searchQuery)
  /\ Len(filtered) >= 2
  /\ Len(filtered) < Len(expenses)

(***************************************************************************)
(* Vendor analytics: extractVendorName, analyzeVendors, filterVendors      *)
(***************************************************************************)
UnknownVendor == <<"U","n","k","n","o","w","n"," ","V","e","n","d","o","r">>

Other == <<"O","t","h","e","r">>

\* a variant that takes the description as it is
extractVendorNameUntrimmed(description) ==
  IF description = <<>> THEN UnknownVendor ELSE description

extractVendorName(description) ==
  LET normalized == trim(description)
  IN  IF normalized = <<>> THEN UnknownVendor ELSE normalized

\* a Map is the sequence of its entries in insertion order; set replaces the
\* value of a present key in place and appends an absent one
MapHas(map, k) == \E i \in 1..Len(map) : map[i].key = k

MapGet(map, k) == map[CHOOSE i \in 1..Len(map) : map[i].key = k].value

MapSet(map, k, v) ==
  IF MapHas(map, k)
    THEN [i \in 1..Len(map) |->
            IF map[i].key = k THEN [key |-> k, value |-> v] ELSE map[i]]
    ELSE Append(map, [key |-> k, value |-> v])

\* vendorMap.set(vendor, [...(vendorMap.get(vendor) || []), expense])
RECURSIVE VendorMap(_)
VendorMap(exps) ==
  IF exps = <<>> THEN <<>>
  ELSE LET map == VendorMap(SubSeq(exps, 1, Len(exps) - 1))
           expense == exps[Len(exps)]
           vendor == extractVendorName(expense.description)
           existing == IF MapHas(map, vendor) THEN MapGet(map, vendor) ELSE <<>>
       IN  MapSet(map, vendor, Append(existing, expense))

\* categoryMap.set(category, {amount: existing.amount + exp.amount,
\*                            count: existing.count + 1})
RECURSIVE CategoryMap(_)
CategoryMap(exps) ==
  IF exps = <<>> THEN <<>>
  ELSE LET map == CategoryMap(SubSeq(exps, 1, Len(exps) - 1))
           exp == exps[Len(exps)]
           existing == IF MapHas(map, exp.category)
                         THEN MapGet(map, exp.category)
                         ELSE [amount |-> 0, count |-> 0]
       IN  MapSet(map, exp.category,
                  [amount |-> FAdd(existing.amount, exp.amount),
                   count  |-> existing.count + 1])

\* the positions of keys in descending order of key, equal keys in their
\* original order: what a stable sort by (a, b) => b.key - a.key leaves when
\* every key is a number
RECURSIVE OrderDesc(_, _)
OrderDesc(keys, S) ==
  IF S = {} THEN <<>>
  ELSE LET i == CHOOSE i \in S :
                  \A j \in S : keys[i] > keys[j] \/ (keys[i] = keys[j] /\ i <= j)
       IN  <<i>> \o OrderDesc(keys, S \ {i})

SortDescBy(s, keys) ==
  LET o == OrderDesc(keys, 1..Len(s))
  IN  [i \in 1..Len(s) |-> s[o[i]]]

\* a sorts before b as 'YYYY-MM-DD' strings
DateStringLess(a, b) ==
  \/ a[1] < b[1]
  \/ a[1] = b[1] /\ a[2] < b[2]
  \/ a[1] = b[1] /\ a[2] = b[2] /\ a[3] < b[3]

\* vendorExpenses.map(exp => exp.date).sort().reverse()[0]
LastTransactionDate(vexps) ==
  LET i == CHOOSE i \in 1..Len(vexps) :
             \A j \in 1..Len(vexps) : ~DateStringLess(vexps[i].date, vexps[j].date)
  IN  vexps[i].date

\* Array.from(categoryMap.entries()).map(...).sort((a, b) => b.amount - a.amount)
BreakdownByAmount(vexps) ==
  LET map == CategoryMap(vexps)
      entries == [i \in 1..Len(map) |->
                    [category |-> map[i].key,
                     amount   |-> map[i].value.amount,
                     count    |-> map[i].value.count]]
  IN  SortDescBy(entries, [i \in 1..Len(entries) |-> entries[i].amount])

\* categoryBreakdown.sort((a, b) => b.count - a.count): sort works in place,
\* so this is also the order categoryBreakdown is left in
BreakdownByCount(breakdown) ==
  SortDescBy(breakdown, [i \in 1..Len(breakdown) |-> breakdown[i].count])

\* a variant that reads the first entry without sorting by count
PrimaryCategoryByAmount(breakdown) ==
  IF Len(breakdown) > 0 THEN breakdown[1].category ELSE Other

PrimaryCategory(breakdown) ==
  IF Len(breakdown) > 0 THEN BreakdownByCount(breakdown)[1].category ELSE Other

\* the entry pushed for one vendor
VendorEntry(vendor, vexps) ==
  LET breakdown == BreakdownByAmount(vexps)
  IN  [vendor              |-> vendor,
       totalAmount         |-> SumAmounts(vexps),
       transactionCount    |-> Len(vexps),
       lastTransactionDate |-> LastTransactionDate(vexps),
       primaryCategory     |-> PrimaryCategory(breakdown),
       categoryBreakdown   |-> IF Len(breakdown) > 0
                                 THEN BreakdownByCount(breakdown)
                                 ELSE breakdown]

\* a variant that returns the list in the order of the map
SortVendorsNot(list) == list

\* vendorDataList.sort((a, b) => b.totalAmount - a.totalAmount)
SortVendors(list) ==
  SortDescBy(list, [i \in 1..Len(list) |-> list[i].totalAmount])

analyzeVendors(exps) ==
  LET map == VendorMap(exps)
  IN  SortVendors([i \in 1..Len(map) |-> VendorEntry(map[i].key, map[i].value)])

\* a variant that also looks at the primary category
filterVendorsAlsoByCategory(vs, query) ==
  IF trim(query) = <<>> THEN vs
  ELSE SelectSeq(vs, LAMBDA v :
         \/ includes(toLowerCase(v.vendor), toLowerCase(query))
         \/ includes(toLowerCase(v.primaryCategory), toLowerCase(query)))

filterVendors(vs, query) ==
  IF trim(query) = <<>> THEN vs
  ELSE SelectSeq(vs, LAMBDA v : includes(toLowerCase(v.vendor), toLowerCase(query)))

(***************************************************************************)
(* Inputs of the vendor analytics                                          *)
(***************************************************************************)
VendorPool ==
  {Record(Feb01, 1, Food, Cafe),
   Record(Jan31, Big, Bills, <<" ","C","a","f","e"," ">>),
   Record(Mar01, 2, Food, <<>>),
   Record(Feb01, 1, Bills, <<" ">>),
   Record(Feb01, 2, Food, <<"c","a","b">>),
   Record(Feb29, Big, Bills, <<"C","A","B">>)}

\* '', ' ', 'ca', 'CA', ' V', 'food', 'x'
VendorQueries ==
  {<<>>, <<" ">>, <<"c","a">>, <<"C","A">>, <<" ","V">>,
   <<"f","o","o","d">>, <<"x">>}

InitVendors ==
  /\ expenses \in ListsOver(VendorPool, MaxLen)
  /\ now \in {0}
  /\ tzOffset \in {0}
  /\ filters = DefaultFilters
  /\ summary = NoSummary
  /\ filtered = <<>>
  /\ pc = "input"
  /\ vendors = <<>>
  /\ searchQuery = <<>>
  /\ filteredVendors = <<>>
  /\ artifact = <<>>
  /\ IdleApp

\* allVendors = analyzeVendors(expenses)
AnalyzeVendors ==
  /\ pc = "input"
  /\ vendors' = analyzeVendors(expenses)
  /\ pc' = "vendors"
  /\ UNCHANGED <<appVars, expenses, now, tzOffset, filters, summary, filtered,
                 searchQuery, filteredVendors, artifact>>

\* the query is typed and filteredVendors = filterVendors(allVendors, query)
FilterVendors ==
  /\ pc = "vendors"
  /\ \E query \in VendorQueries :
       /\ searchQuery' = query
       /\ filteredVendors' = filterVendors(vendors, query)
  /\ pc' = "vendorsFiltered"
  /\ UNCHANGED <<appVars, expenses, now, tzOffset, filters, summary, filtered,
                 vendors, artifact>>

NextVendors == AnalyzeVendors \/ FilterVendors

SpecVendors == InitVendors /\ [][NextVendors]_vars

(***************************************************************************)
(* Claims about the vendor analytics                                       *)
(***************************************************************************)
Analyzed == pc \in {"vendors", "vendorsFiltered"}

\* the description without its leading and trailing whitespace, or the
\* sentinel when nothing is left
Identity(description) ==
  LET stripped == TrimLeft(TrimRight(description))
  IN  IF Len(stripped) = 0 THEN UnknownVendor ELSE stripped

\* the positions of the records that belong to a vendor
GroupOf(name) ==
  {j \in 1..Len(expenses) : Identity(expenses[j].description) = name}

RECURSIVE SumNat(_)
SumNat(s) == IF s = <<>> THEN 0 ELSE s[1] + SumNat(Tail(s))

\* C13: analyzeVendors returns exactly one entry per distinct vendor identity
\* (the description without leading and trailing whitespace, or 'Unknown
\* Vendor' when that is empty); each entry's transactionCount is the number of
\* records with that identity and the counts add up to the number of records.
C13_OneEntryPerVendor ==
  Analyzed =>
    LET ids == {Identity(expenses[j].description) : j \in 1..Len(expenses)}
    IN  /\ {vendors[i].vendor : i \in 1..Len(vendors)} = ids
        /\ Len(vendors) = Cardinality(ids)
        /\ \A i \in 1..Len(vendors) :
             vendors[i].transactionCount = Cardinality(GroupOf(vendors[i].vendor))
        /\ SumNat([i \in 1..Len(vendors) |-> vendors[i].transactionCount])
             = Len(expenses)

C13_Witness ==
  /\ Analyzed
  /\ Len(expenses) = 3
  /\ Len(vendors) = 2
  /\ \E i \in 1..Len(vendors) :
       vendors[i].vendor = UnknownVendor /\ vendors[i].transactionCount = 2
  /\ \E i \in 1..Len(vendors) : vendors[i].vendor = Cafe
  /\ \E j \in 1..Len(expenses) : expenses[j].description = <<" ","C","a","f","e"," ">>

\* the sum the vendor page shows: allVendors.reduce((sum, v) => sum + v.totalAmount, 0)
RECURSIVE SumVendorTotals(_)
SumVendorTotals(vs) ==
  IF vs = <<>> THEN 0
  ELSE FAdd(SumVendorTotals(SubSeq(vs, 1, Len(vs) - 1)), vs[Len(vs)].totalAmount)

\* C14: the totalAmount values of all vendors returned by analyzeVendors add
\* up to the totalSpending that calculateSummary reports for the same list.
C14_VendorTotalsSumToTotalSpending ==
  Analyzed => SumVendorTotals(vendors) = TotalSpending(expenses)

\* C15: the list returned by analyzeVendors is ordered by non-increasing
\* totalAmount.
C15_VendorsDescending ==
  Analyzed =>
    \A i, j \in 1..Len(vendors) :
      i < j => vendors[i].totalAmount >= vendors[j].totalAmount

\* the vendor met last in the input comes first in the result
C15_Witness ==
  /\ Analyzed
  /\ Len(vendors) = 3
  /\ vendors[1].totalAmount > vendors[2].totalAmount
  /\ vendors[2].totalAmount > vendors[3].totalAmount
  /\ vendors[1].vendor = Identity(expenses[3].description)
  /\ vendors[3].vendor = Identity(expenses[1].description)

\* C16: every vendor's categoryBreakdown has one entry per category occurring
\* in the vendor's records, with that category's amount sum and record count,
\* and is ordered by non-increasing amount.
C16_VendorBreakdownDescending ==
  Analyzed =>
    \A i \in 1..Len(vendors) :
      LET b == vendors[i].categoryBreakdown
          group == GroupOf(vendors[i].vendor)
          InCategory(c) == SelectSeq(expenses, LAMBDA e :
                             Identity(e.description) = vendors[i].vendor
                             /\ e.category = c)
      IN  /\ {b[k].category : k \in 1..Len(b)} = {expenses[j].category : j \in group}
          /\ Len(b) = Cardinality({expenses[j].category : j \in group})
          /\ \A k \in 1..Len(b) :
               /\ b[k].count = Len(InCategory(b[k].category))
               /\ b[k].amount = SumAmounts(InCategory(b[k].category))
          /\ \A k, l \in 1..Len(b) : k < l => b[k].amount >= b[l].amount

\* C17: every vendor's primaryCategory is a category with the largest number
\* of records in the vendor's group (not the largest amount) and occurs in
\* the group.
C17_PrimaryCategoryByCount ==
  Analyzed =>
    \A i \in 1..Len(vendors) :
      LET group == GroupOf(vendors[i].vendor)
          CountOf(c) == Cardinality({j \in group : expenses[j].category = c})
      IN  /\ \E j \in group : expenses[j].category = vendors[i].primaryCategory
          /\ \A j \in group :
               CountOf(vendors[i].primaryCategory) >= CountOf(expenses[j].category)

\* a vendor whose most frequent category is not the one with the largest amount
C17_Witness ==
  /\ Analyzed
  /\ \E i \in 1..Len(vendors) :
       /\ vendors[i].vendor = Cafe
       /\ vendors[i].transactionCount = 3
       /\ vendors[i].primaryCategory = Food
       /\ \E k \in 1..Len(vendors[i].categoryBreakdown) :
            /\ vendors[i].categoryBreakdown[k].category = Bills
            /\ vendors[i].categoryBreakdown[k].count = 1
            /\ \A l \in 1..Len(vendors[i].categoryBreakdown) :
                 vendors[i].categoryBreakdown[k].amount
                   >= vendors[i].categoryBreakdown[l].amount

NameContains(v, query) == ContainsIgnoringCase(v.vendor, query)

\* C18: filterVendors returns its input list unchanged for an empty query, and
\* otherwise returns, in the original order, exactly the vendors whose name
\* contains the query as a substring ignoring letter case; no other vendor
\* field influences the match.
C18_FilterVendorsEmptyIsIdentity ==
  pc = "vendorsFiltered" =>
    IF searchQuery = <<>>
      THEN filteredVendors = vendors
      ELSE filteredVendors = SelectSeq(vendors, LAMBDA v : NameContains(v, searchQuery))

\* C18 as amended: filterVendors returns its input list unchanged for an empty
\* or whitespace-only query, and otherwise returns, in the original order,
\* exactly the vendors whose name contains the query as typed, ignoring letter
\* case; no other vendor field influences the match.
C18_FilterVendorsBlankIsIdentity ==
  pc = "vendorsFiltered" =>
    IF IsBlank(searchQuery)
      THEN filteredVendors = vendors
      ELSE filteredVendors = SelectSeq(vendors, LAMBDA v : NameContains(v, searchQuery))

\* a whitespace-only query keeps a vendor whose name has no space
C18_WitnessBlank ==
  /\ pc = "vendorsFiltered"
  /\ searchQuery = <<" ">>
  /\ \E i \in 1..Len(filteredVendors) : ~NameContains(filteredVendors[i], <<" ">>)

\* a query that keeps one vendor and drops one whose category contains it
C18_Witness ==
  /\ pc = "vendorsFiltered"
  /\ ~IsBlank(searchQuery)
  /\ Len(filteredVendors) >= 1
  /\ Len(filteredVendors) < Len(vendors)
  /\ \E i \in 1..Len(vendors) :
       /\ ~NameContains(vendors[i], searchQuery)
       /\ vendors[i].totalAmount > filteredVendors[1].totalAmount

(***************************************************************************)
(* exportToCSV                                                             *)
(***************************************************************************)
Quote == "\""

Comma == ","

LineFeed == "\n"

\* the n lowest decimal digits of k, with leading zeros
RECURSIVE Padded(_, _)
Padded(k, n) ==
  IF n = 0 THEN <<>> ELSE Padded(k \div 10, n - 1) \o <<DigitChars[(k % 10) + 1]>>

\* the date field of a record is the string 'YYYY-MM-DD'
DateString(d) == Padded(d[1], 4) \o <<"-">> \o Padded(d[2], 2) \o <<"-">> \o Padded(d[3], 2)

\* description.replace(/"/g, '""')
RECURSIVE DoubleQuotes(_)
DoubleQuotes(str) ==
  IF str = <<>> THEN <<>>
  ELSE (IF str[1] = Quote THEN <<Quote, Quote>> ELSE <<str[1]>>)
       \o DoubleQuotes(Tail(str))

\* Array.prototype.join
RECURSIVE Join(_, _)
Join(parts, sep) ==
  IF parts = <<>> THEN <<>>
  ELSE IF Len(parts) = 1 THEN parts[1]
  ELSE parts[1] \o sep \o Join(Tail(parts), sep)

CSVHeaders ==
  << <<"D","a","t","e">>, <<"C","a","t","e","g","o","r","y">>,
     <<"A","m","o","u","n","t">>,
     <<"D","e","s","c","r","i","p","t","i","o","n">> >>

CSVRow(exp) ==
  <<DateString(exp.date),
    exp.category,
    NumberToString(exp.amount),
    <<Quote>> \o DoubleQuotes(exp.description) \o <<Quote>> >>

exportToCSV(exps) ==
  Join(<<Join(CSVHeaders, <<Comma>>)>>
         \o [i \in 1..Len(exps) |-> Join(CSVRow(exps[i]), <<Comma>>)],
       <<LineFeed>>)

\* 'a,b' as a category, 'a"b', 'x,y' and a two-line text as descriptions
CSVPool ==
  {Record(Feb01, 1, Food, Cafe),
   Record(Jan31, 12, Bills, <<"a", Quote, "b">>),
   Record(Feb29, 2, <<"a", Comma, "b">>, <<"x", Comma, "y">>),
   Record(Mar01, Big, Food, <<>>),
   Record(Feb01, 2, Bills, <<"l", LineFeed, "m">>)}

InitCSV ==
  /\ expenses \in ListsOver(CSVPool, MaxLen)
  /\ now \in {0}
  /\ tzOffset \in {0}
  /\ filters = DefaultFilters
  /\ summary = NoSummary
  /\ filtered = <<>>
  /\ pc = "input"
  /\ vendors = <<>>
  /\ searchQuery = <<>>
  /\ filteredVendors = <<>>
  /\ artifact = <<>>
  /\ IdleApp

ExportToCSV ==
  /\ pc = "input"
  /\ artifact' = exportToCSV(expenses)
  /\ pc' = "csv"
  /\ UNCHANGED <<appVars, expenses, now, tzOffset, filters, summary, filtered,
                 vendors, searchQuery, filteredVendors>>

NextCSV == ExportToCSV

SpecCSV == InitCSV /\ [][NextCSV]_vars

\* '""' read back as '"'
RECURSIVE Undouble(_)
Undouble(str) ==
  IF str = <<>> THEN <<>>
  ELSE IF str[1] = Quote /\ Len(str) >= 2 /\ str[2] = Quote
    THEN <<Quote>> \o Undouble(SubSeq(str, 3, Len(str)))
  ELSE <<str[1]>> \o Undouble(Tail(str))

\* the first position from i on that holds a comma or a line feed, or the
\* position after the text
SeparatorFrom(text, i) ==
  LET S == {j \in i..Len(text) : text[j] \in {Comma, LineFeed}}
  IN  IF S = {} THEN Len(text) + 1 ELSE CHOOSE j \in S : \A k \in S : j <= k

\* the closing double quote of the field opened at i: the first double quote
\* that is not half of a pair, or the position after the text
ClosingQuote(text, i) ==
  LET S == {j \in (i + 1)..Len(text) :
              /\ text[j] = Quote
              /\ Cardinality({k \in (i + 1)..j : text[k] = Quote}) % 2 = 1
              /\ (j = Len(text) \/ text[j + 1] # Quote)}
  IN  IF S = {} THEN Len(text) + 1 ELSE CHOOSE j \in S : \A k \in S : j <= k

DropCR(str) ==
  IF str # <<>> /\ str[Len(str)] = "\r" THEN SubSeq(str, 1, Len(str) - 1) ELSE str

\* RFC 4180: records end at a line break, fields are separated by commas, a
\* field that starts with a double quote runs to its closing double quote,
\* and inside it two double quotes stand for one. A field starts at i; row is
\* the record being read, rows the records read so far.
RECURSIVE ParseCSVFrom(_, _, _, _)
ParseCSVFrom(text, i, row, rows) ==
  LET quoted == i <= Len(text) /\ text[i] = Quote
      close == ClosingQuote(text, i)
      end == IF quoted THEN SeparatorFrom(text, close + 1) ELSE SeparatorFrom(text, i)
      raw == IF quoted
               THEN Undouble(SubSeq(text, i + 1, close - 1))
                    \o SubSeq(text, close + 1, end - 1)
               ELSE SubSeq(text, i, end - 1)
      value == IF end > Len(text) \/ text[end] = LineFeed THEN DropCR(raw) ELSE raw
  IN  IF end > Len(text) THEN Append(rows, Append(row, value))
      ELSE IF text[end] = Comma
        THEN ParseCSVFrom(text, end + 1, Append(row, value), rows)
      ELSE ParseCSVFrom(text, end + 1, <<>>, Append(rows, Append(row, value)))

ParseCSV(text) == ParseCSVFrom(text, 1, <<>>, <<>>)

\* C19: parsing the output of exportToCSV with RFC 4180 rules yields the
\* header row Date,Category,Amount,Description followed by one row per record,
\* in input order, whose four fields are the record's date, category, amount
\* and description, whatever the category and the description are.
C19_CSVRoundTrip ==
  pc = "csv" =>
    ParseCSV(artifact)
      = <<CSVHeaders>> \o
        [i \in 1..Len(expenses) |->
           <<DateString(expenses[i].date), expenses[i].category,
             NumberToString(expenses[i].amount), expenses[i].description>>]

\* the same for lists whose categories hold no comma, double quote or line
\* break
PlainCategory(c) == \A k \in 1..Len(c) : c[k] \notin {Comma, Quote, LineFeed, "\r"}

C19_CSVRoundTripPlainCategories ==
  (pc = "csv" /\ \A i \in 1..Len(expenses) : PlainCategory(expenses[i].category))
    => C19_CSVRoundTrip

(***************************************************************************)
(* exportToJSON                                                            *)
(***************************************************************************)
Backslash == "\\"

\* Date.prototype.toISOString of instant t: 'YYYY-MM-DDTHH:mm:00.000Z'
toISOString(t) ==
  DateString(DateFrom(2024, 1, t \div MinutesPerDay))
    \o <<"T">> \o Padded((t % MinutesPerDay) \div 60, 2)
    \o <<":">> \o Padded(t % 60, 2)
    \o <<":","0","0",".","0","0","0","Z">>

\* the values JSON.stringify meets here: each carries its type
JSONNumber(n) == [type |-> "number", value |-> n]

JSONString(str) == [type |-> "string", value |-> str]

JSONArray(elements) == [type |-> "array", value |-> elements]

JSONObject(members) == [type |-> "object", value |-> members]

Member(k, v) == [key |-> k, value |-> v]

\* QuoteJSONString: '"', '\' and the line feed are written with a backslash
RECURSIVE EscapeJSON(_)
EscapeJSON(str) ==
  IF str = <<>> THEN <<>>
  ELSE (CASE str[1] = Quote     -> <<Backslash, Quote>>
          [] str[1] = Backslash -> <<Backslash, Backslash>>
          [] str[1] = LineFeed  -> <<Backslash, "n">>
          [] OTHER              -> <<str[1]>>)
       \o EscapeJSON(Tail(str))

Indent(n) == [i \in 1..n |-> " "]

\* JSON.stringify(value, null, 2) at indentation ind
RECURSIVE Stringify(_, _)
Stringify(v, ind) ==
  CASE v.type = "number" -> NumberToString(v.value)
    [] v.type = "string" -> <<Quote>> \o EscapeJSON(v.value) \o <<Quote>>
    [] v.type = "array" ->
         IF v.value = <<>> THEN <<"[", "]">>
         ELSE <<"[", LineFeed>>
              \o Join([i \in 1..Len(v.value) |->
                         Indent(ind + 2) \o Stringify(v.value[i], ind + 2)],
                      <<Comma, LineFeed>>)
              \o <<LineFeed>> \o Indent(ind) \o <<"]">>
    [] v.type = "object" ->
         IF v.value = <<>> THEN <<"{", "}">>
         ELSE <<"{", LineFeed>>
              \o Join([i \in 1..Len(v.value) |->
                         Indent(ind + 2)
                         \o <<Quote>> \o EscapeJSON(v.value[i].key) \o <<Quote>>
                         \o <<":", " ">>
                         \o Stringify(v.value[i].value, ind + 2)],
                      <<Comma, LineFeed>>)
              \o <<LineFeed>> \o Indent(ind) \o <<"}">>

KeyId == <<"i","d">>
KeyDate == <<"d","a","t","e">>
KeyCategory == <<"c","a","t","e","g","o","r","y">>
KeyAmount == <<"a","m","o","u","n","t">>
KeyDescription == <<"d","e","s","c","r","i","p","t","i","o","n">>
KeyCreatedAt == <<"c","r","e","a","t","e","d","A","t">>
KeyUpdatedAt == <<"u","p","d","a","t","e","d","A","t">>
KeyExportDate == <<"e","x","p","o","r","t","D","a","t","e">>
KeyTotalRecords == <<"t","o","t","a","l","R","e","c","o","r","d","s">>
KeyTotalAmount == <<"t","o","t","a","l","A","m","o","u","n","t">>
KeyExpenses == <<"e","x","p","e","n","s","e","s">>

\* the id of a record is a string
IdString(id) == NumberToString(id)

\* a variant without the two time stamps
ExportedExpenseWithoutStamps(exp) ==
  JSONObject(<<Member(KeyId, JSONString(IdString(exp.id))),
               Member(KeyDate, JSONString(DateString(exp.date))),
               Member(KeyCategory, JSONString(exp.category)),
               Member(KeyAmount, JSONNumber(exp.amount)),
               Member(KeyDescription, JSONString(exp.description))>>)

\* expenses.map(exp => ({id, date, category, amount, description, createdAt,
\* updatedAt}))
ExportedExpense(exp) ==
  JSONObject(<<Member(KeyId, JSONString(IdString(exp.id))),
               Member(KeyDate, JSONString(DateString(exp.date))),
               Member(KeyCategory, JSONString(exp.category)),
               Member(KeyAmount, JSONNumber(exp.amount)),
               Member(KeyDescription, JSONString(exp.description)),
               Member(KeyCreatedAt, JSONString(toISOString(exp.createdAt))),
               Member(KeyUpdatedAt, JSONString(toISOString(exp.updatedAt)))>>)

ExportData(exps, t) ==
  JSONObject(<<Member(KeyExportDate, JSONString(toISOString(t))),
               Member(KeyTotalRecords, JSONNumber(Len(exps))),
               Member(KeyTotalAmount, JSONNumber(SumAmounts(exps))),
               Member(KeyExpenses,
                      JSONArray([i \in 1..Len(exps) |-> ExportedExpense(exps[i])]))>>)

exportToJSON(exps, t) == Stringify(ExportData(exps, t), 0)

\* a record with the instants it was created and last updated at
Stamped(exp, created, updated) ==
  [id |-> exp.id, date |-> exp.date, amount |-> exp.amount,
   category |-> exp.category, description |-> exp.description,
   createdAt |-> created, updatedAt |-> updated]

\* 'a"b' as a category; 'x\y', a two-line text and '' as descriptions
JSONPool ==
  {Stamped(Record(Feb01, 1, Food, Cafe), 0, 0),
   Stamped(Record(Jan31, 12, <<"a", Quote, "b">>, <<"x", Backslash, "y">>), 61, 1500),
   Stamped(Record(Feb29, Big, Bills, <<"l", LineFeed, "m">>), 0, 61),
   Stamped(Record(Mar01, 1, Food, <<>>), 1500, 1500),
   Stamped(Record(Feb01, 2, Bills, <<"{", "}", Comma, "[", ":">>), 61, 61)}

InitJSON ==
  /\ expenses \in ListsOver(JSONPool, MaxLen)
  /\ now \in {(31 + 14) * MinutesPerDay + 725}
  /\ tzOffset \in {0}
  /\ filters = DefaultFilters
  /\ summary = NoSummary
  /\ filtered = <<>>
  /\ pc = "input"
  /\ vendors = <<>>
  /\ searchQuery = <<>>
  /\ filteredVendors = <<>>
  /\ artifact = <<>>
  /\ IdleApp

ExportToJSON ==
  /\ pc = "input"
  /\ artifact' = exportToJSON(expenses, now)
  /\ pc' = "json"
  /\ UNCHANGED <<appVars, expenses, now, tzOffset, filters, summary, filtered,
                 vendors, searchQuery, filteredVendors>>

NextJSON == ExportToJSON

SpecJSON == InitJSON /\ [][NextJSON]_vars

(***************************************************************************)
(* Reading a JSON document (RFC 8259)                                      *)
(***************************************************************************)
CharAt(text, i) == IF i >= 1 /\ i <= Len(text) THEN text[i] ELSE ""

Malformed(text) == [val |-> [type |-> "error", value |-> <<>>], pos |-> Len(text) + 2]

\* the first position from i on that holds no white space
RECURSIVE SkipSpace(_, _)
SkipSpace(text, i) ==
  IF CharAt(text, i) \in {" ", LineFeed, "\t", "\r"} THEN SkipSpace(text, i + 1) ELSE i

\* the characters of the string whose opening quote is before i
RECURSIVE ReadString(_, _, _)
ReadString(text, i, acc) ==
  LET c == CharAt(text, i)
      d == CharAt(text, i + 1)
  IN  IF c = "" THEN Malformed(text)
      ELSE IF c = Quote THEN [val |-> JSONString(acc), pos |-> i + 1]
      ELSE IF c = Backslash
        THEN IF d \in {Quote, Backslash, "/"}
               THEN ReadString(text, i + 2, Append(acc, d))
             ELSE IF d = "n" THEN ReadString(text, i + 2, Append(acc, LineFeed))
             ELSE IF d = "t" THEN ReadString(text, i + 2, Append(acc, "\t"))
             ELSE IF d = "r" THEN ReadString(text, i + 2, Append(acc, "\r"))
             ELSE Malformed(text)
      ELSE IF c = LineFeed THEN Malformed(text)
      ELSE ReadString(text, i + 1, Append(acc, c))

\* the position after the digits that start at i
RECURSIVE SkipDigits(_, _)
SkipDigits(text, i) ==
  IF \E k \in 1..10 : DigitChars[k] = CharAt(text, i) THEN SkipDigits(text, i + 1) ELSE i

ReadNumber(text, i) ==
  LET end == SkipDigits(text, i)
  IN  IF end > i + 1 /\ text[i] = "0" THEN Malformed(text)
      ELSE [val |-> JSONNumber(DigitsValue(SubSeq(text, i, end - 1))), pos |-> end]

RECURSIVE ReadValue(_, _)
RECURSIVE ReadElements(_, _, _)
RECURSIVE ReadMembers(_, _, _)

\* the elements of an array; i is where the next element starts
ReadElements(text, i, acc) ==
  LET element == ReadValue(text, i)
      after == SkipSpace(text, element.pos)
  IN  IF element.val.type = "error" THEN Malformed(text)
      ELSE IF CharAt(text, after) = Comma
        THEN ReadElements(text, after + 1, Append(acc, element.val))
      ELSE IF CharAt(text, after) = "]"
        THEN [val |-> JSONArray(Append(acc, element.val)), pos |-> after + 1]
      ELSE Malformed(text)

\* the members of an object; i is where the next key starts
ReadMembers(text, i, acc) ==
  LET start == SkipSpace(text, i)
      key == ReadString(text, start + 1, <<>>)
      colon == SkipSpace(text, key.pos)
      value == ReadValue(text, colon + 1)
      after == SkipSpace(text, value.pos)
      member == Member(key.val.value, value.val)
  IN  IF CharAt(text, start) # Quote \/ key.val.type = "error" THEN Malformed(text)
      ELSE IF CharAt(text, colon) # ":" \/ value.val.type = "error" THEN Malformed(text)
      ELSE IF CharAt(text, after) = Comma
        THEN ReadMembers(text, after + 1, Append(acc, member))
      ELSE IF CharAt(text, after) = "}"
        THEN [val |-> JSONObject(Append(acc, member)), pos |-> after + 1]
      ELSE Malformed(text)

ReadValue(text, i) ==
  LET start == SkipSpace(text, i)
      c == CharAt(text, start)
      inner == SkipSpace(text, start + 1)
  IN  IF c = Quote THEN ReadString(text, start + 1, <<>>)
      ELSE IF \E k \in 1..10 : DigitChars[k] = c THEN ReadNumber(text, start)
      ELSE IF c = "[" THEN
        IF CharAt(text, inner) = "]"
          THEN [val |-> JSONArray(<<>>), pos |-> inner + 1]
          ELSE ReadElements(text, start + 1, <<>>)
      ELSE IF c = "{" THEN
        IF CharAt(text, inner) = "}"
          THEN [val |-> JSONObject(<<>>), pos |-> inner + 1]
          ELSE ReadMembers(text, start + 1, <<>>)
      ELSE Malformed(text)

\* JSON.parse: one value and nothing but white space after it
ParseJSON(text) ==
  LET read == ReadValue(text, 1)
  IN  IF SkipSpace(text, read.pos) = Len(text) + 1
        THEN read.val
        ELSE [type |-> "error", value |-> <<>>]

Keys(object) == [i \in 1..Len(object.value) |-> object.value[i].key]

HasKey(object, k) == \E i \in 1..Len(object.value) : object.value[i].key = k

\* the value of the last member named k
Get(object, k) ==
  LET S == {i \in 1..Len(object.value) : object.value[i].key = k}
  IN  object.value[CHOOSE i \in S : \A j \in S : i >= j].value

IsNumber(v, n) == v.type = "number" /\ v.value = n

IsString(v, str) == v.type = "string" /\ v.value = str

SevenFields ==
  {KeyId, KeyDate, KeyCategory, KeyAmount, KeyDescription, KeyCreatedAt, KeyUpdatedAt}

\* the exported object holds the seven fields of the record, and only them
IsExportOf(v, exp) ==
  /\ v.type = "object"
  /\ Len(v.value) = 7
  /\ {v.value[i].key : i \in 1..Len(v.value)} = SevenFields
  /\ IsString(Get(v, KeyId), IdString(exp.id))
  /\ IsString(Get(v, KeyDate), DateString(exp.date))
  /\ IsString(Get(v, KeyCategory), exp.category)
  /\ IsNumber(Get(v, KeyAmount), exp.amount)
  /\ IsString(Get(v, KeyDescription), exp.description)
  /\ IsString(Get(v, KeyCreatedAt), toISOString(exp.createdAt))
  /\ IsString(Get(v, KeyUpdatedAt), toISOString(exp.updatedAt))

\* C20: the document produced by exportToJSON has totalRecords equal to the
\* number of input records, an expenses array of that length holding the
\* records in input order with all seven fields, and totalAmount equal to the
\* sum of the input amounts (added in input order).
C20_JSONDocument ==
  pc = "json" =>
    LET doc == ParseJSON(artifact)
    IN  /\ doc.type = "object"
        /\ HasKey(doc, KeyTotalRecords)
        /\ HasKey(doc, KeyExpenses)
        /\ HasKey(doc, KeyTotalAmount)
        /\ IsNumber(Get(doc, KeyTotalRecords), Len(expenses))
        /\ Get(doc, KeyExpenses).type = "array"
        /\ Len(Get(doc, KeyExpenses).value) = Len(expenses)
        /\ \A i \in 1..Len(expenses) :
             IsExportOf(Get(doc, KeyExpenses).value[i], expenses[i])
        /\ IsNumber(Get(doc, KeyTotalAmount), SumAmounts(expenses))

\* three records, among them a category with a double quote, a description
\* with a backslash and one with a line break
C20_Witness ==
  /\ pc = "json"
  /\ Len(expenses) = 3
  /\ \E i \in 1..3 : \E k \in 1..Len(expenses[i].category) :
       expenses[i].category[k] = Quote
  /\ \E i \in 1..3 : \E k \in 1..Len(expenses[i].description) :
       expenses[i].description[k] = LineFeed
  /\ expenses[1].amount # expenses[2].amount
  /\ ParseJSON(artifact).type = "object"
  /\ IsNumber(Get(ParseJSON(artifact), KeyTotalRecords), 3)

(***************************************************************************)
(* performExport, downloadFile, openPDFWindow                              *)
(***************************************************************************)
FormatCSV == <<"c","s","v">>
FormatJSON == <<"j","s","o","n">>
FormatPDF == <<"p","d","f">>
FormatXLSX == <<"x","l","s","x">>

\* the type allows csv, json and pdf; a caller outside the type checker can
\* pass anything
Formats == {FormatCSV, FormatJSON, FormatPDF, FormatXLSX}

MimeCSV == "text/csv;charset=utf-8;"

MimeJSON == "application/json;charset=utf-8;"

\* 'Unsupported format: '
UnsupportedPrefix ==
  <<"U","n","s","u","p","p","o","r","t","e","d"," ","f","o","r","m","a","t",":"," ">>

\* the report exportToPDF lays out: the number of records, the total and
\* one table row per record
exportToPDF(exps) ==
  [title   |-> "Expense Report",
   records |-> Len(exps),
   total   |-> SumAmounts(exps),
   rows    |-> [i \in 1..Len(exps) |->
                  <<exps[i].date, exps[i].category, exps[i].description,
                    exps[i].amount>>]]

\* the promise and what the call has done so far: the downloads triggered,
\* the documents written to a new window, the timers not yet fired, and how
\* often resolve and reject were called
NewPromise(fmt, name) ==
  [format |-> fmt, filename |-> name, promise |-> "pending", error |-> <<>>,
   downloads |-> <<>>, windows |-> <<>>, timers |-> {},
   resolveCalls |-> 0, rejectCalls |-> 0]

\* link.setAttribute('download', filename); link.click()
downloadFile(call, content, filename, mimeType) ==
  [call EXCEPT !.downloads =
     Append(@, [content |-> content, filename |-> filename, mimeType |-> mimeType])]

\* window.open gives a window, or null when the browser blocks it
openPDFWindow(call, html, opens) ==
  IF opens THEN [call EXCEPT !.windows = Append(@, html)] ELSE call

\* setTimeout(() => resolve(), 500)
ResolveLater(call) == [call EXCEPT !.timers = @ \cup {"resolve"}]

\* reject(error): only the first settlement counts
Reject(call, message) ==
  [call EXCEPT !.rejectCalls = @ + 1,
               !.promise = IF @ = "pending" THEN "rejected" ELSE @,
               !.error = IF call.promise = "pending" THEN message ELSE @]

\* resolve()
Resolve(call) ==
  [call EXCEPT !.resolveCalls = @ + 1,
               !.promise = IF @ = "pending" THEN "resolved" ELSE @]

\* a variant whose default branch falls through to the timer
UnsupportedFallsThrough(call) == ResolveLater(call)

\* default: throw new Error(`Unsupported format: ${format}`), caught by the
\* catch block, which rejects
Unsupported(call) == Reject(call, UnsupportedPrefix \o call.format)

\* 'Export failed'
ExportFailure == <<"E","x","p","o","r","t"," ","f","a","i","l","e","d">>

\* the executor of the promise, run inside the call; opens says what
\* window.open does, throws whether building or handing over the content
\* throws, t is the instant of the call
performExport(exps, fmt, name, opens, throws, t) ==
  LET call == NewPromise(fmt, name)
  IN  CASE fmt \notin {FormatCSV, FormatJSON, FormatPDF} -> Unsupported(call)
        [] fmt \in {FormatCSV, FormatJSON, FormatPDF} /\ throws ->
             Reject(call, ExportFailure)
        [] fmt = FormatCSV /\ ~throws ->
             ResolveLater(downloadFile(call, exportToCSV(exps),
                                       name \o <<".","c","s","v">>, MimeCSV))
        [] fmt = FormatJSON /\ ~throws ->
             ResolveLater(downloadFile(call, exportToJSON(exps, t),
                                       name \o <<".","j","s","o","n">>, MimeJSON))
        [] fmt = FormatPDF /\ ~throws ->
             ResolveLater(openPDFWindow(call, exportToPDF(exps), opens))

\* the timer fires
TimerResolves(call) == Resolve([call EXCEPT !.timers = @ \ {"resolve"}])

Filenames == {<<"e","x","p">>, <<"a",".","b">>}

InitExport ==
  /\ expenses \in ListsOver(JSONPool, MaxLen)
  /\ now \in {(31 + 14) * MinutesPerDay + 725}
  /\ tzOffset \in {0}
  /\ filters = DefaultFilters
  /\ summary = NoSummary
  /\ filtered = <<>>
  /\ pc = "input"
  /\ vendors = <<>>
  /\ searchQuery = <<>>
  /\ filteredVendors = <<>>
  /\ artifact = <<>>
  /\ IdleApp

PerformExport ==
  /\ pc = "input"
  /\ \E fmt \in Formats, name \in Filenames, opens \in BOOLEAN, throws \in BOOLEAN :
       exporter' = performExport(expenses, fmt, name, opens, throws, now)
  /\ pc' = "called"
  /\ UNCHANGED <<expenses, now, tzOffset, filters, summary, filtered, pageVars,
                 dialog, store, form>>

ResolveTimerFires ==
  /\ pc = "called"
  /\ "resolve" \in exporter.timers
  /\ exporter' = TimerResolves(exporter)
  /\ pc' = "settled"
  /\ UNCHANGED <<expenses, now, tzOffset, filters, summary, filtered, pageVars,
                 dialog, store, form>>

NextExport == PerformExport \/ ResolveTimerFires

SpecExport == InitExport /\ [][NextExport]_vars

Called == pc \in {"called", "settled"}

Supported == {FormatCSV, FormatJSON, FormatPDF}

\* C21: performExport with a format other than csv, json or pdf is rejected
\* with an error naming the format; no download and no print window is
\* issued, and the operation never also reports completion.
C21_UnsupportedFormatRejected ==
  (Called /\ exporter.format \notin Supported) =>
    /\ exporter.promise = "rejected"
    /\ includes(exporter.error, exporter.format)
    /\ exporter.downloads = <<>>
    /\ exporter.windows = <<>>
    /\ exporter.timers = {}
    /\ exporter.resolveCalls = 0

C21_Witness ==
  /\ pc = "called"
  /\ exporter.format = FormatXLSX
  /\ exporter.promise = "rejected"
  /\ Len(expenses) >= 1

\* C22: whenever the promise of performExport resolves, the download of
\* '<filename>.csv' or '<filename>.json' was triggered (csv, json) or the
\* printable document was opened in a new view (pdf) earlier in the same
\* call, and the promise settles exactly once.
C22_ResolvesAfterSideEffect ==
  (Called /\ exporter.promise = "resolved") =>
    /\ exporter.resolveCalls + exporter.rejectCalls = 1
    /\ exporter.format = FormatCSV =>
         /\ Len(exporter.downloads) = 1
         /\ exporter.downloads[1].filename = exporter.filename \o <<".","c","s","v">>
    /\ exporter.format = FormatJSON =>
         /\ Len(exporter.downloads) = 1
         /\ exporter.downloads[1].filename = exporter.filename \o <<".","j","s","o","n">>
    /\ exporter.format = FormatPDF => Len(exporter.windows) = 1

\* the same without the view of the pdf format
C22_ResolvesAfterDownload ==
  (Called /\ exporter.promise = "resolved" /\ exporter.format # FormatPDF) =>
    C22_ResolvesAfterSideEffect

(***************************************************************************)
(* The export dialog (ExportModal)                                         *)
(***************************************************************************)
MaxDialogLen == 2

Transportation == <<"T","r","a","n","s","p","o","r","t","a","t","i","o","n">>
Entertainment == <<"E","n","t","e","r","t","a","i","n","m","e","n","t">>
Shopping == <<"S","h","o","p","p","i","n","g">>

DEFAULT_CATEGORIES == <<Food, Transportation, Entertainment, Shopping, Bills, Other>>

CATEGORIES == DEFAULT_CATEGORIES

InList(list, x) == \E i \in 1..Len(list) : list[i] = x

\* a date field of the dialog: '' or 'YYYY-MM-DD'; value || undefined
OrUndefined(value) == IF value = <<>> THEN <<>> ELSE <<value>>

\* some but not all categories are ticked
PartialSelection(selected) ==
  Len(selected) > 0 /\ Len(selected) < Len(CATEGORIES)

\* the criteria handed to filterExpenses
DialogFilters(d) ==
  [startDate   |-> OrUndefined(d.startDate),
   endDate     |-> OrUndefined(d.endDate),
   category    |-> IF Len(d.selectedCategories) = 0
                      \/ Len(d.selectedCategories) = Len(CATEGORIES)
                     THEN <<>>
                     ELSE <<d.selectedCategories[1]>>,
   searchQuery |-> <<>>]

\* the useMemo of the dialog
filteredExpenses(exps, d) ==
  SelectSeq(filterExpenses(exps, DialogFilters(d)),
            LAMBDA exp : PartialSelection(d.selectedCategories)
                           => InList(d.selectedCategories, exp.category))

\* prev.includes(category) ? prev.filter(c => c !== category) : [...prev, category]
ToggleCategory(selected, category) ==
  IF InList(selected, category)
    THEN SelectSeq(selected, LAMBDA c : c # category)
    ELSE Append(selected, category)

\* a variant that lets a second export start while one is running
ExportEnabledWhileExporting(d, shown) == shown # <<>> /\ trim(d.filename) # <<>>

\* the Export button: disabled={isExporting || filteredExpenses.length === 0
\* || !filename.trim()}
ExportEnabled(d, shown) ==
  ~d.isExporting /\ shown # <<>> /\ trim(d.filename) # <<>>

\* a variant whose catch block leaves the spinner on
AfterFailureStillExporting(d) ==
  [d EXCEPT !.awaiting = FALSE, !.inFlight = @ - 1, !.alerted = TRUE]

\* catch: setIsExporting(false); alert('Export failed. Please try again.')
AfterFailure(d) ==
  [d EXCEPT !.awaiting = FALSE, !.inFlight = @ - 1, !.isExporting = FALSE,
            !.alerted = TRUE]

\* 'expenses-export'
DefaultFilename ==
  <<"e","x","p","e","n","s","e","s","-","e","x","p","o","r","t">>

\* useState('csv'), useState('expenses-export'), useState(''), useState([]),
\* useState(false); the page starts with showExportModal false
NewDialog ==
  [isOpen |-> FALSE, isExporting |-> FALSE, format |-> FormatCSV,
   filename |-> DefaultFilename, startDate |-> <<>>, endDate |-> <<>>,
   selectedCategories |-> <<>>, awaiting |-> FALSE, inFlight |-> 0,
   closeTimer |-> FALSE, alerted |-> FALSE]

DialogPool ==
  {Stamped(Record(Jan31, 1, Food, Cafe), 0, 0),
   Stamped(Record(Feb29, 2, Bills, <<>>), 61, 61)}

DialogFormats == {FormatCSV, FormatPDF}

DialogFilenames == {DefaultFilename, <<" ">>}

\* the categories ticked one by one
Ticked == {Food, Bills}

InitDialog ==
  /\ expenses \in ListsOver(DialogPool, MaxDialogLen)
  /\ now \in {0}
  /\ tzOffset \in {0}
  /\ filters = DefaultFilters
  /\ summary = NoSummary
  /\ dialog = NewDialog
  /\ filtered = filteredExpenses(expenses, NewDialog)
  /\ pc = "page"
  /\ vendors = <<>>
  /\ searchQuery = <<>>
  /\ filteredVendors = <<>>
  /\ artifact = <<>>
  /\ exporter = <<>>
  /\ store = <<>>
  /\ form = <<>>

\* no continuation of handleExport is waiting to run: user events come only
\* between tasks
Interactive == ~(dialog.awaiting /\ exporter.promise = "rejected")

\* the dialog changes and the memo is recomputed
Render(d) ==
  /\ dialog' = d
  /\ filtered' = filteredExpenses(expenses, d)
  /\ UNCHANGED <<expenses, now, tzOffset, filters, summary, pc, pageVars,
                 store, form>>

\* handleExportClick
OpenDialog ==
  /\ Interactive /\ ~dialog.isOpen
  /\ Render([dialog EXCEPT !.isOpen = TRUE])
  /\ UNCHANGED exporter

\* the backdrop and the close button call onClose at any time; Cancel is
\* disabled while exporting
CloseDialog ==
  /\ Interactive /\ dialog.isOpen
  /\ Render([dialog EXCEPT !.isOpen = FALSE])
  /\ UNCHANGED exporter

EditDialog ==
  /\ Interactive /\ dialog.isOpen
  /\ \/ \E fmt \in DialogFormats : Render([dialog EXCEPT !.format = fmt])
     \/ \E name \in DialogFilenames : Render([dialog EXCEPT !.filename = name])
     \/ \E d \in {<<>>, Feb01} : Render([dialog EXCEPT !.startDate = d])
     \/ \E d \in {<<>>, Feb01} : Render([dialog EXCEPT !.endDate = d])
  /\ UNCHANGED exporter

SelectCategories ==
  /\ Interactive /\ dialog.isOpen
  /\ \/ \E c \in Ticked :
          Render([dialog EXCEPT !.selectedCategories = ToggleCategory(@, c)])
     \/ Render([dialog EXCEPT !.selectedCategories = CATEGORIES])
     \/ Render([dialog EXCEPT !.selectedCategories = <<>>])
  /\ UNCHANGED exporter

\* handleExport up to its await: setIsExporting(true) and the call of
\* onExport, whose executor runs at once
ClickExport ==
  /\ Interactive /\ dialog.isOpen
  /\ ExportEnabled(dialog, filtered)
  /\ \E opens \in BOOLEAN, throws \in BOOLEAN :
       exporter' = performExport(filtered, dialog.format, dialog.filename,
                                 opens, throws, now)
  /\ Render([dialog EXCEPT !.isExporting = TRUE, !.awaiting = TRUE,
                           !.inFlight = @ + 1, !.alerted = FALSE])

\* the timer of performExport fires, the promise resolves and handleExport
\* goes on after its await: setTimeout(() => {...}, 500)
ExportSucceeded ==
  /\ dialog.awaiting /\ "resolve" \in exporter.timers
  /\ exporter' = TimerResolves(exporter)
  /\ Render([dialog EXCEPT !.awaiting = FALSE, !.inFlight = @ - 1,
                           !.closeTimer = TRUE])

\* the promise was rejected and handleExport goes on in its catch block
ExportFailed ==
  /\ dialog.awaiting /\ exporter.promise = "rejected"
  /\ Render(AfterFailure(dialog))
  /\ UNCHANGED exporter

\* the timer of handleExport fires: setIsExporting(false); onClose()
CloseTimerFires ==
  /\ dialog.closeTimer
  /\ Render([dialog EXCEPT !.closeTimer = FALSE, !.isExporting = FALSE,
                           !.isOpen = FALSE])
  /\ UNCHANGED exporter

NextDialog ==
  \/ OpenDialog \/ CloseDialog \/ EditDialog \/ SelectCategories
  \/ ClickExport \/ ExportSucceeded \/ ExportFailed \/ CloseTimerFires

\* timers fire and continuations run
SpecDialog ==
  /\ InitDialog /\ [][NextDialog]_vars
  /\ WF_vars(ExportSucceeded) /\ WF_vars(ExportFailed) /\ WF_vars(CloseTimerFires)

InDialog == pc = "page" /\ dialog # <<>>

\* the records of the list dated within the dates chosen in the dialog
InChosenRange(exp) ==
  InDateRange(exp, [startDate |-> OrUndefined(dialog.startDate),
                    endDate   |-> OrUndefined(dialog.endDate)])

\* C23: when a non-empty proper subset S of the categories is selected, the
\* records to be exported are exactly the records whose category is in S and
\* whose date lies within the chosen range, for a selection of any size; when
\* no category or every category is selected, no category restriction
\* applies.
C23_MultiCategorySelection ==
  InDialog =>
    LET S == {dialog.selectedCategories[i] : i \in 1..Len(dialog.selectedCategories)}
        proper == S # {} /\ Cardinality(S) < Len(CATEGORIES)
    IN  filtered = SelectSeq(expenses, LAMBDA exp :
                     InChosenRange(exp) /\ (proper => exp.category \in S))

\* the same for selections of at most one category
C23_SingleCategorySelection ==
  (InDialog /\ Len(dialog.selectedCategories) \in {0, 1, Len(CATEGORIES)})
    => C23_MultiCategorySelection

\* C30, safety: at most one export is in flight, and a step that starts one
\* leaves a state where isExporting is false, some record matches the
\* filters and the filename is not blank.
C30_StartsOnlyWhenEnabled ==
  (dialog'.inFlight > dialog.inFlight) =>
    /\ ~dialog.isExporting
    /\ filtered # <<>>
    /\ ~IsBlank(dialog.filename)

\* C30: in the export dialog at most one export is in flight at a time; the
\* Export button starts none while isExporting is true, no record matches or
\* the filename is blank; and after a started export isExporting eventually
\* returns to false, on success (with the dialog closed) as on failure (with
\* an alert), whatever other dialog events occur in between.
C30_OneExportAtATime ==
  /\ [](InDialog => dialog.inFlight <= 1)
  /\ [](InDialog => (dialog.inFlight = 1 => dialog.isExporting))
  /\ [][C30_StartsOnlyWhenEnabled]_vars
  /\ [][(dialog.isExporting /\ ~dialog'.isExporting) =>
          \/ (exporter.promise = "resolved" /\ ~dialog'.isOpen)
          \/ (exporter.promise = "rejected" /\ dialog'.alerted)]_vars
  /\ (dialog.isExporting ~> ~dialog.isExporting)

\* an export that succeeded and waits for the delay of the dialog
C30_Witness ==
  /\ InDialog
  /\ dialog.isExporting /\ dialog.closeTimer
  /\ dialog.isOpen
  /\ exporter.promise = "resolved"
  /\ dialog.inFlight = 0

\* an export that failed
C30_WitnessFailure ==
  /\ InDialog
  /\ ~dialog.isExporting /\ dialog.alerted
  /\ exporter.promise = "rejected"

(***************************************************************************)
(* localStorage and the storage wrapper (src/utils/storage.ts)             *)
(*                                                                         *)
(* An item of localStorage is <<>> (no item: getItem gives null) or        *)
(* <<text>>. A stored record keeps its fields as the program holds them:   *)
(* id, date, createdAt and updatedAt are strings, amount is a number.      *)
(***************************************************************************)
\* JSON.stringify(value) without indentation
RECURSIVE StringifyCompact(_)
StringifyCompact(v) ==
  CASE v.type = "number" -> NumberToString(v.value)
    [] v.type = "string" -> <<Quote>> \o EscapeJSON(v.value) \o <<Quote>>
    [] v.type = "array" ->
         <<"[">>
         \o Join([i \in 1..Len(v.value) |-> StringifyCompact(v.value[i])], <<Comma>>)
         \o <<"]">>
    [] v.type = "object" ->
         <<"{">>
         \o Join([i \in 1..Len(v.value) |->
                    <<Quote>> \o EscapeJSON(v.value[i].key) \o <<Quote, ":">>
                    \o StringifyCompact(v.value[i].value)],
                 <<Comma>>)
         \o <<"}">>

\* an expense as JSON.stringify sees it: its properties in insertion order
ExpenseToJSON(exp) ==
  JSONObject(<<Member(KeyId, JSONString(exp.id)),
               Member(KeyDate, JSONString(exp.date)),
               Member(KeyAmount, JSONNumber(exp.amount)),
               Member(KeyCategory, JSONString(exp.category)),
               Member(KeyDescription, JSONString(exp.description)),
               Member(KeyCreatedAt, JSONString(exp.createdAt)),
               Member(KeyUpdatedAt, JSONString(exp.updatedAt))>>)

\* the object JSON.parse builds, read as an expense
ExpenseFromJSON(v) ==
  [id          |-> Get(v, KeyId).value,
   date        |-> Get(v, KeyDate).value,
   amount      |-> Get(v, KeyAmount).value,
   category    |-> Get(v, KeyCategory).value,
   description |-> Get(v, KeyDescription).value,
   createdAt   |-> Get(v, KeyCreatedAt).value,
   updatedAt   |-> Get(v, KeyUpdatedAt).value]

KeyName == <<"n","a","m","e">>

\* a custom category: {name, createdAt}
CategoryToJSON(c) ==
  JSONObject(<<Member(KeyName, JSONString(c.name)),
               Member(KeyCreatedAt, JSONString(c.createdAt))>>)

CategoryFromJSON(v) ==
  [name |-> Get(v, KeyName).value, createdAt |-> Get(v, KeyCreatedAt).value]

\* a stored text that JSON.parse rejects
CorruptText == <<"[", "{">>

\* what a storage function hands back: its return value, whether it raised
\* to its caller, and whether its read or its write failed on the way
Outcome(s, v, r, rf, wf) ==
  [store |-> s, value |-> v, raised |-> r, readFailed |-> rf, writeFailed |-> wf]

\* what a read hands on once JSON.parse ran: caught is whether a try block
\* is around it
Parsed(parsed, caught) ==
  IF parsed.type = "error"
    THEN [value |-> <<>>, raised |-> ~caught, failed |-> TRUE]
    ELSE [value |-> parsed.value, raised |-> FALSE, failed |-> FALSE]

\* a variant of the read without the try block
ReadItemUnguarded(hasWindow, item, throws) ==
  IF ~hasWindow THEN [value |-> <<>>, raised |-> FALSE, failed |-> FALSE]
  ELSE IF throws THEN [value |-> <<>>, raised |-> TRUE, failed |-> TRUE]
  ELSE IF item = <<>> \/ item[1] = <<>>
    THEN [value |-> <<>>, raised |-> FALSE, failed |-> FALSE]
  ELSE Parsed(ParseJSON(item[1]), FALSE)

\* if (typeof window === 'undefined') return [];
\* try { data = localStorage.getItem(KEY); return data ? JSON.parse(data) : [] }
\* catch { return [] }
\* throws: getItem throws. The value is the list of the parsed elements.
ReadItem(hasWindow, item, throws) ==
  IF ~hasWindow THEN [value |-> <<>>, raised |-> FALSE, failed |-> FALSE]
  ELSE IF throws THEN [value |-> <<>>, raised |-> FALSE, failed |-> TRUE]
  ELSE IF item = <<>> \/ item[1] = <<>>
    THEN [value |-> <<>>, raised |-> FALSE, failed |-> FALSE]
  ELSE Parsed(ParseJSON(item[1]), TRUE)

\* a variant of the write that writes in any context
WriteItemUnguarded(hasWindow, item, elements, throws) ==
  IF throws THEN [item |-> item, failed |-> TRUE]
  ELSE [item |-> <<StringifyCompact(JSONArray(elements))>>, failed |-> FALSE]

\* if (typeof window === 'undefined') return;
\* try { localStorage.setItem(KEY, JSON.stringify(list)) } catch { }
\* throws: setItem throws (the quota is exceeded)
WriteItem(hasWindow, item, elements, throws) ==
  IF ~hasWindow THEN [item |-> item, failed |-> FALSE]
  ELSE IF throws THEN [item |-> item, failed |-> TRUE]
  ELSE [item |-> <<StringifyCompact(JSONArray(elements))>>, failed |-> FALSE]

\* the list a getter returns, made of what the read gave
ReadAs(s, read, list) == Outcome(s, list, read.raised, read.failed, FALSE)

ExpensesFromJSON(elements) ==
  [i \in 1..Len(elements) |-> ExpenseFromJSON(elements[i])]

ExpensesRead(s, read) == ReadAs(s, read, ExpensesFromJSON(read.value))

getExpenses(s, env) ==
  ExpensesRead(s, ReadItem(s.window, s.expensesItem, env.readThrows))

ExpensesWritten(s, write) ==
  Outcome([s EXCEPT !.expensesItem = write.item], <<>>, FALSE, FALSE, write.failed)

saveExpenses(s, list, env) ==
  ExpensesWritten(s, WriteItem(s.window, s.expensesItem,
                               [i \in 1..Len(list) |-> ExpenseToJSON(list[i])],
                               env.writeThrows))

\* what a function that reads and then writes hands back
ReadThenWrite(got, saved) ==
  IF got.raised THEN got
  ELSE [saved EXCEPT !.readFailed = got.readFailed]

\* expenses = getExpenses(); expenses.push(expense); saveExpenses(expenses)
AddTo(s, got, expense, env) ==
  ReadThenWrite(got, saveExpenses(s, Append(got.value, expense), env))

storageAddExpense(s, expense, env) == AddTo(s, getExpenses(s, env), expense, env)

\* index = expenses.findIndex(exp => exp.id === id);
\* if (index !== -1) { expenses[index] = updatedExpense; saveExpenses(expenses) }
UpdateIn(s, got, id, updatedExpense, env) ==
  LET found == {i \in 1..Len(got.value) : got.value[i].id = id}
      index == CHOOSE i \in found : \A j \in found : i <= j
  IN  IF found = {} THEN got
      ELSE ReadThenWrite(got, saveExpenses(s, [got.value EXCEPT ![index] = updatedExpense], env))

storageUpdateExpense(s, id, updatedExpense, env) ==
  UpdateIn(s, getExpenses(s, env), id, updatedExpense, env)

\* saveExpenses(expenses.filter(exp => exp.id !== id))
DeleteFrom(s, got, id, env) ==
  ReadThenWrite(got, saveExpenses(s, SelectSeq(got.value, LAMBDA exp : exp.id # id), env))

storageDeleteExpense(s, id, env) == DeleteFrom(s, getExpenses(s, env), id, env)

\* if (typeof window === 'undefined') return; localStorage.removeItem(KEY)
clearAll(s) ==
  IF ~s.window THEN s ELSE [s EXCEPT !.expensesItem = <<>>]

CategoriesFromJSON(elements) ==
  [i \in 1..Len(elements) |-> CategoryFromJSON(elements[i])]

CategoriesRead(s, read) == ReadAs(s, read, CategoriesFromJSON(read.value))

getCustomCategories(s, env) ==
  CategoriesRead(s, ReadItem(s.window, s.categoriesItem, env.readThrows))

CategoriesWritten(s, write) ==
  Outcome([s EXCEPT !.categoriesItem = write.item], <<>>, FALSE, FALSE, write.failed)

saveCustomCategories(s, list, env) ==
  CategoriesWritten(s, WriteItem(s.window, s.categoriesItem,
                                 [i \in 1..Len(list) |-> CategoryToJSON(list[i])],
                                 env.writeThrows))

\* categories = getCustomCategories(); categories.push(category);
\* saveCustomCategories(categories)
AddCategoryTo(s, got, category, env) ==
  ReadThenWrite(got, saveCustomCategories(s, Append(got.value, category), env))

addCustomCategory(s, category, env) ==
  AddCategoryTo(s, getCustomCategories(s, env), category, env)

\* [...DEFAULT_CATEGORIES, ...customCategories.map(c => c.name)]
WithDefaults(custom) ==
  DEFAULT_CATEGORIES \o [i \in 1..Len(custom) |-> custom[i].name]

getAllCategories(s, env) == WithDefaults(getCustomCategories(s, env).value)

\* the elements of an array
Range(array) == {array[i] : i \in 1..Len(array)}

\* a variant that compares the names as they are written
categoryExistsExactly(s, categoryName, env) ==
  \E name \in {categoryName} \cap Range(getAllCategories(s, env)) : TRUE

\* allCategories.some(c => c.toLowerCase() === categoryName.toLowerCase())
categoryExists(s, categoryName, env) ==
  \E c \in Range(getAllCategories(s, env)) :
    toLowerCase(c) = toLowerCase(categoryName)

(***************************************************************************)
(* Records as the expense form and the useExpenses hook make them          *)
(***************************************************************************)
\* parseFloat of the digits the amount field holds
parseFloat(str) == DigitsValue(str)

\* what the form submits: every field is a string
FormPool ==
  {[date |-> DateString(Feb01), amount |-> <<"1">>, category |-> Food,
    description |-> Cafe],
   [date |-> DateString(Feb29), amount |-> <<"1","2">>, category |-> Bills,
    description |-> <<"a", Quote, "b">>]}

\* the record addExpense builds; n stands for crypto.randomUUID(), t is the
\* instant of the call
NewExpense(n, formData, t) ==
  [id          |-> IdString(n),
   date        |-> formData.date,
   amount      |-> parseFloat(formData.amount),
   category    |-> formData.category,
   description |-> formData.description,
   createdAt   |-> toISOString(t),
   updatedAt   |-> toISOString(t)]

\* {name: trimmedName, createdAt: new Date().toISOString()}
NewCategory(name, t) == [name |-> name, createdAt |-> toISOString(t)]

NoFailure == [readThrows |-> FALSE, writeThrows |-> FALSE]

Environments == [readThrows : BOOLEAN, writeThrows : BOOLEAN]

(***************************************************************************)
(* The storage functions called one at a time, in any context              *)
(***************************************************************************)
StoredExpenseLists ==
  {<<>>,
   <<NewExpense(1, CHOOSE f \in FormPool : f.category = Food, 0)>>,
   <<NewExpense(1, CHOOSE f \in FormPool : f.category = Bills, 0),
     NewExpense(2, CHOOSE f \in FormPool : f.category = Food, 61)>>}

StoredCategoryLists ==
  {<<>>, <<NewCategory(Cafe, 0)>>, <<NewCategory(Cafe, 0), NewCategory(<<"a", Quote>>, 61)>>}

\* no item, '', a text JSON.parse rejects, or the text of a list
ExpenseItems ==
  {<<>>, <<<<>>>>, <<CorruptText>>}
    \cup {saveExpenses([window |-> TRUE, expensesItem |-> <<>>, categoriesItem |-> <<>>],
                       list, NoFailure).store.expensesItem : list \in StoredExpenseLists}

CategoryItems ==
  {<<>>, <<CorruptText>>}
    \cup {saveCustomCategories([window |-> TRUE, expensesItem |-> <<>>, categoriesItem |-> <<>>],
                               list, NoFailure).store.categoriesItem :
            list \in StoredCategoryLists}

InitStorage ==
  /\ expenses = <<>>
  /\ now \in {0}
  /\ tzOffset \in {0}
  /\ filters = DefaultFilters
  /\ summary = NoSummary
  /\ filtered = <<>>
  /\ pc = "idle"
  /\ vendors = <<>>
  /\ searchQuery = <<>>
  /\ filteredVendors = <<>>
  /\ artifact = <<>>
  /\ exporter = <<>>
  /\ dialog = <<>>
  /\ store \in [window : BOOLEAN, expensesItem : ExpenseItems,
                categoriesItem : CategoryItems]
  /\ form = <<>>

\* one call: form keeps what was called, the store before it and what the
\* call handed back
Called1(op, outcome) ==
  /\ pc = "idle"
  /\ form' = [op |-> op, before |-> store, value |-> outcome.value,
              raised |-> outcome.raised, readFailed |-> outcome.readFailed,
              writeFailed |-> outcome.writeFailed]
  /\ store' = outcome.store
  /\ pc' = "returned"
  /\ UNCHANGED <<expenses, now, tzOffset, filters, summary, filtered, pageVars,
                 exporter, dialog>>

CallGetExpenses ==
  \E env \in Environments : Called1("getExpenses", getExpenses(store, env))

CallGetCustomCategories ==
  \E env \in Environments :
    Called1("getCustomCategories", getCustomCategories(store, env))

CallSaveExpenses ==
  \E env \in Environments, list \in StoredExpenseLists :
    Called1("saveExpenses", saveExpenses(store, list, env))

CallSaveCustomCategories ==
  \E env \in Environments, list \in StoredCategoryLists :
    Called1("saveCustomCategories", saveCustomCategories(store, list, env))

\* the ids the calls name: two that stored lists hold and one they do not
StorageIds == {IdString(1), IdString(2), IdString(3)}

CallAddExpense ==
  \E env \in Environments, formData \in FormPool :
    Called1("addExpense", storageAddExpense(store, NewExpense(3, formData, 122), env))

CallUpdateExpense ==
  \E env \in Environments, id \in StorageIds, formData \in FormPool :
    Called1("updateExpense",
            storageUpdateExpense(store, id, NewExpense(1, formData, 122), env))

CallDeleteExpense ==
  \E env \in Environments, id \in StorageIds :
    Called1("deleteExpense", storageDeleteExpense(store, id, env))

NextStorage ==
  \/ CallGetExpenses \/ CallGetCustomCategories
  \/ CallSaveExpenses \/ CallSaveCustomCategories
  \/ CallAddExpense \/ CallUpdateExpense \/ CallDeleteExpense

SpecStorage == InitStorage /\ [][NextStorage]_vars

\* C26: getExpenses and getCustomCategories return an empty list instead of
\* failing where no browser window exists or when reading or parsing the
\* stored value fails; without a window saveExpenses and saveCustomCategories
\* do nothing and do not raise.
C26_StorageDegradesGracefully ==
  pc = "returned" =>
    /\ (form.op \in {"getExpenses", "getCustomCategories"}
        /\ (~form.before.window \/ form.readFailed))
         => (form.value = <<>> /\ ~form.raised /\ store = form.before)
    /\ (form.op \in {"getExpenses", "getCustomCategories"}
        /\ form.before.window
        /\ <<CorruptText>> = (IF form.op = "getExpenses"
                                THEN form.before.expensesItem
                                ELSE form.before.categoriesItem))
         => (form.readFailed /\ form.value = <<>> /\ ~form.raised)
    /\ (form.op \in {"saveExpenses", "saveCustomCategories"} /\ ~form.before.window)
         => (store = form.before /\ ~form.raised)

\* a stored text that does not parse is read as the empty list
C26_Witness ==
  /\ pc = "returned"
  /\ form.op = "getExpenses"
  /\ form.before.window
  /\ form.before.expensesItem = <<CorruptText>>
  /\ form.readFailed
  /\ form.value = <<>>

\* a save without a window leaves the items alone
C26_WitnessNoWindow ==
  /\ pc = "returned"
  /\ form.op = "saveExpenses"
  /\ ~form.before.window
  /\ form.before.expensesItem = <<>>
  /\ store = form.before

\* a stored list is read back as it was saved
C26_ReadsBackWhatWasSaved ==
  (pc = "returned" /\ form.op = "getExpenses" /\ form.before.window
   /\ ~form.readFailed)
    => \/ form.value \in StoredExpenseLists
          /\ form.before.expensesItem
               = saveExpenses(form.before, form.value, NoFailure).store.expensesItem
       \/ form.before.expensesItem \in {<<>>, <<<<>>>>} /\ form.value = <<>>

\* the five operations on the stored expenses
ExpenseOperations ==
  {"getExpenses", "saveExpenses", "addExpense", "updateExpense", "deleteExpense"}

\* C25: when the read or the write inside a storage operation on the expenses
\* fails, the operation does not raise and the stored expense list is what it
\* was before the operation.
C25_FailureLeavesStoreAlone ==
  (pc = "returned" /\ form.op \in ExpenseOperations
   /\ (form.readFailed \/ form.writeFailed))
    => (~form.raised /\ store.expensesItem = form.before.expensesItem)

\* a failed write alone changes nothing, and no operation raises
C25_FailedWriteChangesNothing ==
  (pc = "returned" /\ form.op \in ExpenseOperations)
    => /\ ~form.raised
       /\ (form.writeFailed /\ ~form.readFailed)
            => store.expensesItem = form.before.expensesItem

\* a write replaces the whole stored list or changes nothing
C25_WritesAreWholeReplacements ==
  (pc = "returned" /\ form.op \in ExpenseOperations)
    => \/ store.expensesItem = form.before.expensesItem
       \/ /\ ~form.writeFailed
          /\ ParseJSON(store.expensesItem[1]).type = "array"

(***************************************************************************)
(* The useExpenses hook under the page: the list it exposes and the store  *)
(***************************************************************************)
\* how many expenses a behaviour adds
MaxAdds == 1

\* the instants at which the clock is read
ClockReadings == {0, 61}

\* the list an earlier session left in the store
EarlierSession == <<NewExpense(9, CHOOSE f \in FormPool : f.category = Food, 0)>>

\* a variant of the edit that stamps the record as new
UpdatedExpenseRestamped(existingExpense, formData, t) ==
  [existingExpense EXCEPT !.date = formData.date,
                          !.amount = parseFloat(formData.amount),
                          !.category = formData.category,
                          !.description = formData.description,
                          !.createdAt = toISOString(t),
                          !.updatedAt = toISOString(t)]

\* {...existingExpense, date, amount, category, description, updatedAt}
UpdatedExpense(existingExpense, formData, t) ==
  [existingExpense EXCEPT !.date = formData.date,
                          !.amount = parseFloat(formData.amount),
                          !.category = formData.category,
                          !.description = formData.description,
                          !.updatedAt = toISOString(t)]

\* expenses.find(exp => exp.id === id), as a list of no or one record
FindExpense(list, id) ==
  LET found == {i \in 1..Len(list) : list[i].id = id}
  IN  IF found = {} THEN <<>>
      ELSE <<list[CHOOSE i \in found : \A j \in found : i <= j]>>

\* what a call on the hook leaves: the list it exposes and the store
HookResult(list, s, did) == [expenses |-> list, store |-> s, did |-> did]

\* a variant of updateExpense that adds the record when it finds none
Created(list, s, fresh, env) ==
  HookResult(Append(list, fresh), storageAddExpense(s, fresh, env).store, "update")

\* storage.updateExpense(id, updatedExpense);
\* setExpenses(prev => prev.map(exp => exp.id === id ? updatedExpense : exp))
Updated(list, s, id, updatedExpense, env) ==
  HookResult([i \in 1..Len(list) |->
                IF list[i].id = id THEN updatedExpense ELSE list[i]],
             storageUpdateExpense(s, id, updatedExpense, env).store,
             "update")

updateExpenseOrCreate(list, s, id, formData, t, env) ==
  IF FindExpense(list, id) = <<>>
    THEN Created(list, s, [NewExpense(1, formData, t) EXCEPT !.id = id], env)
    ELSE Updated(list, s, id, UpdatedExpense(FindExpense(list, id)[1], formData, t), env)

\* useExpenses.updateExpense
updateExpense(list, s, id, formData, t, env) ==
  IF FindExpense(list, id) = <<>> THEN HookResult(list, s, "ignored")
  ELSE Updated(list, s, id, UpdatedExpense(FindExpense(list, id)[1], formData, t), env)

\* useExpenses.deleteExpense
deleteExpense(list, s, id, env) ==
  HookResult(SelectSeq(list, LAMBDA exp : exp.id # id),
             storageDeleteExpense(s, id, env).store, "call")

\* setItem throws for as long as the store has no room left; a read fails
\* when the stored text does not parse
HookEnvironment == [readThrows |-> FALSE, writeThrows |-> form.storageFull]

\* the page state next to the hook: the id of the expense the form edits (the
\* one field of editingExpense the page reads when the form is submitted), the next
\* id randomUUID hands out, what the last step was (the page loaded, the
\* form was cancelled, an update was made or ignored, or another call), and
\* whether the store has room
PageState(editing, nextId, last, full) ==
  [editingExpense |-> editing, nextId |-> nextId, last |-> last,
   storageFull |-> full]

InitExpenses ==
  /\ expenses = <<>>
  /\ now \in {0}
  /\ tzOffset \in {0}
  /\ filters = DefaultFilters
  /\ summary = NoSummary
  /\ filtered = <<>>
  /\ pc = "loading"
  /\ vendors = <<>>
  /\ searchQuery = <<>>
  /\ filteredVendors = <<>>
  /\ artifact = <<>>
  /\ exporter = <<>>
  /\ dialog = <<>>
  /\ store \in [window : {TRUE},
                expensesItem : {<<>>, <<CorruptText>>,
                                WriteItem(TRUE, <<>>,
                                          <<ExpenseToJSON(EarlierSession[1])>>,
                                          FALSE).item},
                categoriesItem : {<<>>}]
  /\ form \in {PageState(<<>>, 1, "none", full) : full \in BOOLEAN}

\* the instants the clock may show at the next reading
Later == {t \in ClockReadings : t >= now}

HookFrame ==
  UNCHANGED <<tzOffset, filters, summary, filtered, pageVars, exporter, dialog>>

\* the effect on mount: setExpenses(storage.getExpenses()); setIsLoading(false)
LoadExpenses ==
  /\ pc = "loading"
  /\ expenses' = getExpenses(store, HookEnvironment).value
  /\ pc' = "ready"
  /\ form' = [form EXCEPT !.last = "load"]
  /\ UNCHANGED <<now, store>>
  /\ HookFrame

\* storage.addExpense(newExpense); setExpenses(prev => [...prev, newExpense])
Added(newExpense) ==
  /\ store' = storageAddExpense(store, newExpense, HookEnvironment).store
  /\ expenses' = Append(expenses, newExpense)

\* the list and the store take what the call on the hook left
Returned(result) ==
  /\ expenses' = result.expenses
  /\ store' = result.store

\* handleAddExpense -> addExpense(formData)
AddExpense ==
  /\ pc = "ready"
  /\ form.nextId <= MaxAdds
  /\ \E formData \in FormPool, t \in Later :
       /\ Added(NewExpense(form.nextId, formData, t))
       /\ now' = t
  /\ form' = [form EXCEPT !.nextId = @ + 1, !.last = "call"]
  /\ UNCHANGED pc
  /\ HookFrame

\* handleEditClick(expense)
EditClick ==
  /\ pc = "ready"
  /\ \E i \in 1..Len(expenses) :
       form' = [form EXCEPT !.editingExpense = <<expenses[i].id>>, !.last = "call"]
  /\ UNCHANGED <<expenses, now, store, pc>>
  /\ HookFrame

\* handleCancelEdit
CancelEdit ==
  /\ pc = "ready"
  /\ form.editingExpense # <<>>
  /\ form' = [form EXCEPT !.editingExpense = <<>>, !.last = "cancel"]
  /\ UNCHANGED <<expenses, now, store, pc>>
  /\ HookFrame

\* the page after updateExpense returned: setEditingExpense(null)
Submitted(result) ==
  /\ Returned(result)
  /\ form' = [form EXCEPT !.editingExpense = <<>>, !.last = result.did]

\* handleUpdateExpense(formData):
\* if (editingExpense) { updateExpense(editingExpense.id, formData);
\*                       setEditingExpense(null) }
UpdateExpense ==
  /\ pc = "ready"
  /\ form.editingExpense # <<>>
  /\ \E formData \in FormPool, t \in Later :
       /\ Submitted(updateExpense(expenses, store, form.editingExpense[1],
                                   formData, t, HookEnvironment))
       /\ now' = t
  /\ UNCHANGED pc
  /\ HookFrame

\* onDelete={deleteExpense} on a row of the list
DeleteExpense ==
  /\ pc = "ready"
  /\ \E i \in 1..Len(expenses) :
       Returned(deleteExpense(expenses, store, expenses[i].id, HookEnvironment))
  /\ form' = [form EXCEPT !.last = "call"]
  /\ UNCHANGED <<now, pc>>
  /\ HookFrame

\* clearAllExpenses: storage.clearAll(); setExpenses([])
ClearAllExpenses ==
  /\ pc = "ready"
  /\ expenses # <<>>
  /\ store' = clearAll(store)
  /\ expenses' = <<>>
  /\ form' = [form EXCEPT !.last = "call"]
  /\ UNCHANGED <<now, pc>>
  /\ HookFrame

\* the page is loaded again: the hook and the page start over
ReloadPage ==
  /\ pc = "ready"
  /\ pc' = "loading"
  /\ expenses' = <<>>
  /\ form' = [form EXCEPT !.editingExpense = <<>>, !.last = "none"]
  /\ UNCHANGED <<now, store>>
  /\ HookFrame

NextExpenses ==
  \/ LoadExpenses \/ AddExpense \/ EditClick \/ CancelEdit \/ UpdateExpense
  \/ DeleteExpense \/ ClearAllExpenses \/ ReloadPage

SpecExpenses == InitExpenses /\ [][NextExpenses]_vars

\* the list the store holds, as a later session reads it
Persisted(s) == getExpenses(s, NoFailure).value

\* C24: once loaded, the list the hook exposes is the list the store holds,
\* same records in the same order, whatever calls were made on the hook.
C24_HookListIsStoredList ==
  pc = "ready" => expenses = Persisted(store)

\* the two lists agree for as long as every write goes through
C24_StoredWhileTheStoreHasRoom ==
  (pc = "ready" /\ ~form.storageFull) => expenses = Persisted(store)

\* the id of the expense the form edits
EditedId == form.editingExpense[1]

\* the form is submitted while it edits: it was open and the step closes it
\* by another way than Cancel or a reload
EditSubmitted ==
  /\ pc = "ready" /\ pc' = "ready"
  /\ form.editingExpense # <<>>
  /\ form'.editingExpense = <<>>
  /\ form'.last \notin {"cancel", "none"}

\* from list before to list after nothing but the record of this id changed,
\* and that record kept its id, its createdAt and its place
OnlyEdited(before, after, id) ==
  /\ Len(after) = Len(before)
  /\ \A i \in 1..Len(before) :
       /\ after[i].id = before[i].id
       /\ after[i].createdAt = before[i].createdAt
       /\ before[i].id # id => after[i] = before[i]

\* C27: editing an expense the list holds keeps its id, its createdAt and its
\* position, leaves every other record as it was and keeps the number of
\* records, in the hook's list and in the stored list.
C27_EditChangesOnlyTheEditedFields ==
  [][(EditSubmitted /\ FindExpense(expenses, EditedId) # <<>>)
       => /\ OnlyEdited(expenses, expenses', EditedId)
          /\ OnlyEdited(Persisted(store), Persisted(store'), EditedId)]_vars

\* the first of two expenses was edited later than it was made, and stored
C27_Witness ==
  /\ pc = "ready"
  /\ form.last = "update"
  /\ Len(expenses) = 2
  /\ expenses[1].updatedAt # expenses[1].createdAt
  /\ expenses[1].createdAt = toISOString(0)
  /\ expenses[1].id = EarlierSession[1].id
  /\ expenses = Persisted(store)

\* C29: an update submitted for an expense the list no longer holds changes
\* neither the hook's list nor the stored item.
C29_UpdateOfDeletedChangesNothing ==
  [][(EditSubmitted /\ FindExpense(expenses, EditedId) = <<>>)
       => (expenses' = expenses /\ store' = store)]_vars

\* an update was ignored while another expense is shown and stored
C29_Witness ==
  /\ pc = "ready"
  /\ form.last = "ignored"
  /\ Len(expenses) = 1
  /\ expenses = Persisted(store)

(***************************************************************************)
(* The expense form's list of categories and the new-category input        *)
(***************************************************************************)
\* the two alerts of the handler
AlertEmpty == "Please enter a category name"
AlertExists == "This category already exists"

\* ExpenseForm.handleAddNewCategory
\* the end of the handler, once the category is in the store
CategoryAdded(added, f, trimmedName, env) ==
  [store |-> added,
   form  |-> [f EXCEPT !.categories = getAllCategories(added, env),
                       !.category = trimmedName,
                       !.newCategoryName = <<>>,
                       !.showNewCategoryInput = FALSE,
                       !.alerted = ""]]

AddTrimmed(s, f, trimmedName, t, env) ==
  IF trimmedName = <<>>
    THEN [store |-> s, form |-> [f EXCEPT !.alerted = AlertEmpty]]
  ELSE IF categoryExists(s, trimmedName, env)
    THEN [store |-> s, form |-> [f EXCEPT !.alerted = AlertExists]]
  ELSE CategoryAdded(addCustomCategory(s, NewCategory(trimmedName, t), env).store,
                     f, trimmedName, env)

handleAddNewCategory(s, f, t, env) ==
  AddTrimmed(s, f, trim(f.newCategoryName), t, env)

\* what the user types into the input
CategoryNames ==
  {<<>>, <<" ">>, Cafe, toLowerCase(Cafe), <<" ">> \o Cafe \o <<" ">>,
   toLowerCase(Food), <<"a", " ", "b">>, <<"A", " ", "B">>}

\* the form before its effect ran: categories [], category 'Food'
NewForm(full) ==
  [categories |-> <<>>, category |-> Food, newCategoryName |-> <<>>,
   showNewCategoryInput |-> FALSE, alerted |-> "", last |-> "none",
   storageFull |-> full]

InitCategories ==
  /\ expenses = <<>>
  /\ now \in {0}
  /\ tzOffset \in {0}
  /\ filters = DefaultFilters
  /\ summary = NoSummary
  /\ filtered = <<>>
  /\ pc = "mounting"
  /\ vendors = <<>>
  /\ searchQuery = <<>>
  /\ filteredVendors = <<>>
  /\ artifact = <<>>
  /\ exporter = <<>>
  /\ dialog = <<>>
  /\ store \in [window : {TRUE}, expensesItem : {<<>>},
                categoriesItem : {<<>>, <<CorruptText>>}]
  /\ form \in {NewForm(full) : full \in BOOLEAN}

CategoryFrame ==
  UNCHANGED <<expenses, now, tzOffset, filters, summary, filtered, pageVars,
              exporter, dialog>>

\* useEffect(() => { setCategories(storage.getAllCategories()) }, [])
MountForm ==
  /\ pc = "mounting"
  /\ form' = [form EXCEPT !.categories = getAllCategories(store, HookEnvironment),
                          !.last = "mount"]
  /\ pc' = "shown"
  /\ UNCHANGED store
  /\ CategoryFrame

\* the button next to the select: setShowNewCategoryInput(!showNewCategoryInput)
ToggleNewCategoryInput ==
  /\ pc = "shown"
  /\ form' = [form EXCEPT !.showNewCategoryInput = ~@, !.alerted = "",
                          !.last = "toggle"]
  /\ UNCHANGED <<store, pc>>
  /\ CategoryFrame

\* Cancel: setShowNewCategoryInput(false); setNewCategoryName('')
CancelNewCategory ==
  /\ pc = "shown"
  /\ form.showNewCategoryInput
  /\ form' = [form EXCEPT !.showNewCategoryInput = FALSE,
                          !.newCategoryName = <<>>, !.alerted = "",
                          !.last = "cancel"]
  /\ UNCHANGED <<store, pc>>
  /\ CategoryFrame

\* onChange of the input: setNewCategoryName(e.target.value)
TypeCategoryName ==
  /\ pc = "shown"
  /\ form.showNewCategoryInput
  /\ \E name \in CategoryNames :
       form' = [form EXCEPT !.newCategoryName = name, !.alerted = "",
                            !.last = "type"]
  /\ UNCHANGED <<store, pc>>
  /\ CategoryFrame

\* the store and the form take what the handler left
Attempted(result) ==
  /\ store' = result.store
  /\ form' = [result.form EXCEPT !.last = "attempt"]

\* the Add button (or Enter) of the input
AddNewCategory ==
  /\ pc = "shown"
  /\ form.showNewCategoryInput
  /\ Attempted(handleAddNewCategory(store, form, now, HookEnvironment))
  /\ UNCHANGED pc
  /\ CategoryFrame

\* the form is shown again later (another page load)
RemountForm ==
  /\ pc = "shown"
  /\ pc' = "mounting"
  /\ form' = NewForm(form.storageFull)
  /\ UNCHANGED store
  /\ CategoryFrame

NextCategories ==
  \/ MountForm \/ ToggleNewCategoryInput \/ CancelNewCategory
  \/ TypeCategoryName \/ AddNewCategory \/ RemountForm

SpecCategories == InitCategories /\ [][NextCategories]_vars

\* the full list as a later reading of the store gives it
AllCategories(s) == getAllCategories(s, NoFailure)

NoTwoAlike(names) ==
  \A i, j \in 1..Len(names) :
    i # j => toLowerCase(names[i]) # toLowerCase(names[j])

\* the name is in the list in some spelling of upper and lower case
AlikeIn(names, name) ==
  \E i \in 1..Len(names) : toLowerCase(names[i]) = toLowerCase(name)

\* C28: no two names of the full category list are equal ignoring case, and
\* an attempt whose trimmed name is empty or is in the list ignoring case
\* leaves the stored custom categories as they were.
C28_CategoryNamesDifferIgnoringCase ==
  /\ [](NoTwoAlike(AllCategories(store)) /\ NoTwoAlike(form.categories))
  /\ [][(form'.last = "attempt"
         /\ (trim(form.newCategoryName) = <<>>
             \/ AlikeIn(AllCategories(store), trim(form.newCategoryName))))
          => store' = store]_vars

\* two custom categories are stored and an attempt at a third was turned
\* down because its name is taken
C28_Witness ==
  /\ pc = "shown"
  /\ form.last = "attempt"
  /\ form.alerted = AlertExists
  /\ Len(getCustomCategories(store, NoFailure).value) = 2
  /\ form.categories = AllCategories(store)

====
